---- MODULE Spec2Model ----
(***************************************************************************)
(* A model of calista's rule algebra and of its evaluation machinery:      *)
(* the condition tree (core/_conditions.py, core/_aggregate_conditions.py),*)
(* the recursive evaluator and the table API (table.py), the aggregate     *)
(* rewriter (group.py) and the pandas / polars engines (engines/).         *)
(*                                                                         *)
(* Python objects are records.  Every condition node carries its class     *)
(* name in "tag"; a raised exception is a record tagged "Exception"; the   *)
(* value None is a record tagged "None".                                   *)
(***************************************************************************)
EXTENDS Integers, Sequences, FiniteSets, TLC

VARIABLES
    backend,    \* the engine class behind the CalistaEngine: "pandas" or "polars"
    engines,    \* the engine objects: engines[i] is the dataset of engine i
    tables,     \* the CalistaTable objects: tables[i] is the engine it holds
    groups,     \* the GroupedTable objects: [engine, agg_keys]
    last        \* the last call of the session: its arguments and its outcome

vars == <<backend, engines, tables, groups, last>>

-----------------------------------------------------------------------------
(* Python values *)

None == [tag |-> "None"]

Exception(kind, msg) == [tag |-> "Exception", kind |-> kind, msg |-> msg]

IsException(x) == x.tag = "Exception"

\* An operand of & or | that is no Condition (the int 5).
NotACondition == [tag |-> "int", repr |-> "5"]

-----------------------------------------------------------------------------
(* core/_conditions.py and core/_aggregate_conditions.py: the node classes *)

CombinatorTags == {"AndCondition", "OrCondition"}

LeafTags == {"IsNull", "IsNotNull", "CompareColumnToValue", "CompareColumnToColumn"}

AggregateByTags == {"SumBy", "CountBy", "MeanBy", "MinBy", "MaxBy", "MedianBy"}

AggregateFuncTags == {"Sum", "Count", "Mean", "Min", "Max", "Median"}

ConditionTags ==
    CombinatorTags \cup {"NotCondition"} \cup LeafTags \cup AggregateByTags
        \cup AggregateFuncTags

\* isinstance(x, Condition)
IsCondition(x) == x.tag \in ConditionTags

\* AndCondition(is_aggregate=..., left=..., right=...)
AndCondition(is_aggregate, left, right) ==
    [tag |-> "AndCondition", is_aggregate |-> is_aggregate,
     left |-> left, right |-> right]

\* OrCondition(is_aggregate=..., left=..., right=...)
OrCondition(is_aggregate, left, right) ==
    [tag |-> "OrCondition", is_aggregate |-> is_aggregate,
     left |-> left, right |-> right]

\* NotCondition(cond=...): is_aggregate keeps the default of Condition, False.
NotCondition(cond) ==
    [tag |-> "NotCondition", is_aggregate |-> FALSE, cond |-> cond]

IsNull(col_name) ==
    [tag |-> "IsNull", is_aggregate |-> FALSE, col_name |-> col_name]

IsNotNull(col_name) ==
    [tag |-> "IsNotNull", is_aggregate |-> FALSE, col_name |-> col_name]

CompareColumnToValue(col_name, operator, value) ==
    [tag |-> "CompareColumnToValue", is_aggregate |-> FALSE,
     col_name |-> col_name, operator |-> operator, value |-> value]

CompareColumnToColumn(col_left, operator, col_right) ==
    [tag |-> "CompareColumnToColumn", is_aggregate |-> FALSE,
     col_left |-> col_left, operator |-> operator, col_right |-> col_right]

\* SumBy, CountBy, MeanBy, MinBy, MaxBy, MedianBy: tag is the class name.
AggregateBy(tag, col_name, operator, value) ==
    [tag |-> tag, is_aggregate |-> TRUE,
     col_name |-> col_name, operator |-> operator, value |-> value]

\* Sum, Count, Mean, Min, Max, Median: the descriptor get_func_agg returns.
AggregateFunc(tag, col_name) ==
    [tag |-> tag, is_aggregate |-> TRUE, col_name |-> col_name]

\* An __and__ that does not compare the two is_aggregate.
CondAnd_Unchecked(self, other) ==
    IF IsCondition(other)
    THEN AndCondition(self.is_aggregate, other, self)
    ELSE Exception("Exception",
                   "type of " \o other.repr \o " is not a Condition")

\* An __and__ that keeps self on the left.
CondAnd_SelfOnLeft(self, other) ==
    IF IsCondition(other)
    THEN IF self.is_aggregate = other.is_aggregate
         THEN AndCondition(self.is_aggregate, self, other)
         ELSE Exception("Exception",
                        "Cannot combine Condition with AggregateCondition")
    ELSE Exception("Exception",
                   "type of " \o other.repr \o " is not a Condition")

\* Condition.__and__(self, other): the value of  self & other.
CondAnd(self, other) ==
    IF IsCondition(other)
    THEN IF self.is_aggregate = other.is_aggregate
         THEN AndCondition(self.is_aggregate, other, self)
         ELSE Exception("Exception",
                        "Cannot combine Condition with AggregateCondition")
    ELSE Exception("Exception",
                   "type of " \o other.repr \o " is not a Condition")

\* Condition.__or__(self, other): the value of  self | other.
CondOr(self, other) ==
    IF IsCondition(other)
    THEN IF self.is_aggregate = other.is_aggregate
         THEN OrCondition(self.is_aggregate, other, self)
         ELSE Exception("Exception",
                        "Cannot combine Condition with AggregateCondition")
    ELSE Exception("Exception",
                   "type of " \o other.repr \o " is not a Condition")

\* Condition.__invert__(self): the value of  ~self.
CondInvert(self) ==
    IF IsCondition(self)
    THEN NotCondition(self)
    ELSE Exception("Exception", "type of " \o self.repr \o " is not a Condition")

\* SumBy.get_func_agg and its five siblings.
FuncTagOf(tag) ==
    CASE tag = "SumBy" -> "Sum"
      [] tag = "CountBy" -> "Count"
      [] tag = "MeanBy" -> "Mean"
      [] tag = "MinBy" -> "Min"
      [] tag = "MaxBy" -> "Max"
      [] tag = "MedianBy" -> "Median"

get_func_agg(self) == AggregateFunc(FuncTagOf(self.tag), self.col_name)

\* A name that leaves the column out.
agg_col_name_NoColumn(self) == self.tag

\* AggregateCondition.agg_col_name: f"{self.__class__.__name__}_{self.col_name}"
agg_col_name(self) == self.tag \o "_" \o self.col_name

\* A check that reads the source column, not the aggregate column.
get_func_check_SourceColumn(self) ==
    CompareColumnToValue(self.col_name, self.operator, self.value)

\* SumBy.get_func_check and its five siblings.
get_func_check(self) ==
    CompareColumnToValue(agg_col_name(get_func_agg(self)),
                         self.operator, self.value)

\* A rewriting that hands the two sides of a combinator over crossed.
RECURSIVE get_conditions_as_func_check_Crossed(_)
get_conditions_as_func_check_Crossed(self) ==
    IF self.is_aggregate
    THEN IF self.tag = "AndCondition"
         THEN AndCondition(FALSE,
                           get_conditions_as_func_check_Crossed(self.right),
                           get_conditions_as_func_check_Crossed(self.left))
         ELSE IF self.tag = "OrCondition"
         THEN OrCondition(FALSE,
                          get_conditions_as_func_check_Crossed(self.right),
                          get_conditions_as_func_check_Crossed(self.left))
         ELSE get_func_check(self)
    ELSE None

\* Condition.get_conditions_as_func_check; a node that is not aggregate falls
\* through the method, which then returns None.  A node of an aggregate class
\* without get_func_check (NotCondition never is aggregate) cannot reach the
\* last branch.
\* A get_conditions_as_func_check whose rebuilt combinators keep the flag
\* of the node they replace.
RECURSIVE get_conditions_as_func_check_KeepsFlag(_)
get_conditions_as_func_check_KeepsFlag(self) ==
    IF self.is_aggregate
    THEN IF self.tag = "AndCondition"
         THEN AndCondition(self.is_aggregate,
                           get_conditions_as_func_check_KeepsFlag(self.left),
                           get_conditions_as_func_check_KeepsFlag(self.right))
         ELSE IF self.tag = "OrCondition"
         THEN OrCondition(self.is_aggregate,
                          get_conditions_as_func_check_KeepsFlag(self.left),
                          get_conditions_as_func_check_KeepsFlag(self.right))
         ELSE get_func_check(self)
    ELSE None

RECURSIVE get_conditions_as_func_check(_)
get_conditions_as_func_check(self) ==
    IF self.is_aggregate
    THEN IF self.tag = "AndCondition"
         THEN AndCondition(FALSE,
                           get_conditions_as_func_check(self.left),
                           get_conditions_as_func_check(self.right))
         ELSE IF self.tag = "OrCondition"
         THEN OrCondition(FALSE,
                          get_conditions_as_func_check(self.left),
                          get_conditions_as_func_check(self.right))
         ELSE get_func_check(self)
    ELSE None

-----------------------------------------------------------------------------
(* Datasets *)

\* A cell is a rational n/d; d = 0 is the missing value (NaN, null).
Null == [n |-> 0, d |-> 0]

IntCell(i) == [n |-> i, d |-> 1]

IsNullCell(c) == c.d = 0

\* The engine's dataset before any load (self.dataset = None).
NoDataset == [tag |-> "None"]

\* A data frame: its columns in order, the names of its index levels (pandas
\* keeps the grouping keys of an aggregation in the index), its rows, and the
\* operation that produced it.
Frame(cols, index, rows, plan) ==
    [tag |-> "frame", cols |-> cols, index |-> index, rows |-> rows,
     plan |-> plan]

\* A polars LazyFrame whose plan names a column that does not exist: every
\* resolution of it (schema, collect) raises ColumnNotFoundError.
InvalidFrame == [tag |-> "invalid"]

Range(s) == {s[i] : i \in 1..Len(s)}

\* dataset[expression]: the rows of the dataset that the mask keeps, in order.
SelectRows(rows, keep) ==
    LET F[i \in 0..Len(rows)] ==
            IF i = 0 THEN <<>>
            ELSE IF keep[i] THEN Append(F[i - 1], rows[i]) ELSE F[i - 1]
    IN F[Len(rows)]

\* str(list(schema.keys())): "['TEAM', 'POINTS']"
RECURSIVE JoinQuoted(_)
JoinQuoted(names) ==
    IF names = <<>> THEN ""
    ELSE IF Len(names) = 1 THEN "'" \o names[1] \o "'"
    ELSE "'" \o names[1] \o "', " \o JoinQuoted(Tail(names))

ListRepr(names) == "[" \o JoinQuoted(names) \o "]"

\* f"Column '{col}' not found in {list(self.schema.keys())}"
ColumnNotFoundMsg(col, names) ==
    "Column '" \o col \o "' not found in " \o ListRepr(names)

-----------------------------------------------------------------------------
(* engines/pandas_.py and engines/polars_.py: expressions *)

Backends == {"pandas", "polars"}

\* mapping_operator of Pandas_Engine and of Polars_Engine
mapping_operator == {"=", "!=", ">", ">=", "<", "<="}

\* x op y on two cells that are not missing
Compare(op, x, y) ==
    LET l == x.n * y.d
        r == y.n * x.d
    IN CASE op = "=" -> l = r
         [] op = "!=" -> l # r
         [] op = ">" -> l > r
         [] op = ">=" -> l >= r
         [] op = "<" -> l < r
         [] op = "<=" -> l <= r

\* A boolean Series (pandas) or the value of a boolean Expr (polars), row by
\* row: "true", "false" or, in polars only, "null".
Bool(b) == IF b THEN "true" ELSE "false"

\* Series.__eq__ ... of pandas: a comparison with NaN is False, but for !=.
\* Expr.__eq__ ... of polars: a comparison with null is null.
CompareCells(be, op, x, y) ==
    IF IsNullCell(x) \/ IsNullCell(y)
    THEN IF be = "pandas" THEN Bool(op = "!=") ELSE "null"
    ELSE Bool(Compare(op, x, y))

\* left & right (pandas), left.and_(right) (polars, Kleene)
AndValue(l, r) ==
    IF l = "false" \/ r = "false" THEN "false"
    ELSE IF l = "null" \/ r = "null" THEN "null"
    ELSE "true"

\* left | right (pandas), left.or_(right) (polars, Kleene)
OrValue(l, r) ==
    IF l = "true" \/ r = "true" THEN "true"
    ELSE IF l = "null" \/ r = "null" THEN "null"
    ELSE "false"

\* A negation that takes a missing value for a false one.
NotValue_NullAsFalse(v) == IF v = "true" THEN "false" ELSE "true"

\* ~cond (pandas), cond.not_() (polars)
NotValue(v) ==
    IF v = "true" THEN "false" ELSE IF v = "false" THEN "true" ELSE "null"

and_condition(left_cond, right_cond) ==
    [i \in 1..Len(left_cond) |-> AndValue(left_cond[i], right_cond[i])]

or_condition(left_cond, right_cond) ==
    [i \in 1..Len(left_cond) |-> OrValue(left_cond[i], right_cond[i])]

not_condition(cond) == [i \in 1..Len(cond) |-> NotValue(cond[i])]

\* What a call gives: the value returned or the exception raised.
Returned(expr) == [ok |-> TRUE, expr |-> expr, exc |-> None]

Raised(exc) == [ok |-> FALSE, expr |-> <<>>, exc |-> exc]

\* Engine.is_null
is_null(be, ds, condition) ==
    Returned([i \in 1..Len(ds.rows) |->
                Bool(IsNullCell(ds.rows[i][condition.col_name]))])

\* Engine.is_not_null
is_not_null(be, ds, condition) ==
    Returned([i \in 1..Len(ds.rows) |->
                Bool(~IsNullCell(ds.rows[i][condition.col_name]))])

\* Engine.compare_column_to_value; pandas ands the comparison with notna().
\* An operator outside mapping_operator makes __getattribute__(None) raise.
compare_column_to_value(be, ds, condition) ==
    IF condition.operator \notin mapping_operator
    THEN Raised(Exception("TypeError",
                          "attribute name must be string, not 'NoneType'"))
    ELSE Returned([i \in 1..Len(ds.rows) |->
            LET x == ds.rows[i][condition.col_name]
                v == CompareCells(be, condition.operator, x,
                                  IntCell(condition.value))
            IN IF be = "pandas"
               THEN AndValue(v, Bool(~IsNullCell(x)))
               ELSE v])

\* Engine.compare_column_to_column
compare_column_to_column(be, ds, condition) ==
    IF condition.operator \notin mapping_operator
    THEN Raised(Exception("TypeError",
                          "attribute name must be string, not 'NoneType'"))
    ELSE Returned([i \in 1..Len(ds.rows) |->
            CompareCells(be, condition.operator,
                         ds.rows[i][condition.col_left],
                         ds.rows[i][condition.col_right])])

\* _camel_to_snake(condition.__class__.__name__)
_camel_to_snake(tag) ==
    CASE tag = "AndCondition" -> "and_condition"
      [] tag = "OrCondition" -> "or_condition"
      [] tag = "NotCondition" -> "not_condition"
      [] tag = "IsNull" -> "is_null"
      [] tag = "IsNotNull" -> "is_not_null"
      [] tag = "CompareColumnToValue" -> "compare_column_to_value"
      [] tag = "CompareColumnToColumn" -> "compare_column_to_column"
      [] tag = "SumBy" -> "sum_by"
      [] tag = "CountBy" -> "count_by"
      [] tag = "MeanBy" -> "mean_by"
      [] tag = "MinBy" -> "min_by"
      [] tag = "MaxBy" -> "max_by"
      [] tag = "MedianBy" -> "median_by"
      [] tag = "Sum" -> "sum"
      [] tag = "Count" -> "count"
      [] tag = "Mean" -> "mean"
      [] tag = "Min" -> "min"
      [] tag = "Max" -> "max"
      [] tag = "Median" -> "median"

\* The methods of the engine classes that take a leaf.
EngineLeafMethods ==
    {"is_null", "is_not_null", "compare_column_to_value",
     "compare_column_to_column"}

\* type(engine).__name__
EngineClassName(be) == IF be = "pandas" THEN "Pandas_Engine" ELSE "Polars_Engine"

\* A lookup whose error names the class of the condition, not the attribute
\* looked up.
CallLeaf_NamesTag(be, ds, condition) ==
    LET attr_name == _camel_to_snake(condition.tag) IN
    IF attr_name \notin EngineLeafMethods
    THEN Raised(Exception("AttributeError",
                          "'" \o EngineClassName(be)
                              \o "' object has no attribute '"
                              \o condition.tag \o "'"))
    ELSE CASE attr_name = "is_null" -> is_null(be, ds, condition)
           [] attr_name = "is_not_null" -> is_not_null(be, ds, condition)
           [] attr_name = "compare_column_to_value" ->
                  compare_column_to_value(be, ds, condition)
           [] attr_name = "compare_column_to_column" ->
                  compare_column_to_column(be, ds, condition)

\* LazyEngine.__getitem__(condition)(condition) for a leaf: the attribute
\* lookup, then the call of the method found.
CallLeaf(be, ds, condition) ==
    LET attr_name == _camel_to_snake(condition.tag) IN
    IF attr_name \notin EngineLeafMethods
    THEN Raised(Exception("AttributeError",
                          "'" \o EngineClassName(be)
                              \o "' object has no attribute '"
                              \o attr_name \o "'"))
    ELSE CASE attr_name = "is_null" -> is_null(be, ds, condition)
           [] attr_name = "is_not_null" -> is_not_null(be, ds, condition)
           [] attr_name = "compare_column_to_value" ->
                  compare_column_to_value(be, ds, condition)
           [] attr_name = "compare_column_to_column" ->
                  compare_column_to_column(be, ds, condition)

\* A dispatch that takes every combinator for an AND.
CallCombinator_AlwaysAnd(tag, left_cond, right_cond) ==
    and_condition(left_cond, right_cond)

\* LazyEngine.__getitem__(condition)(left_cond, right_cond) for AndCondition
\* and OrCondition.
CallCombinator(tag, left_cond, right_cond) ==
    LET attr_name == _camel_to_snake(tag) IN
    IF attr_name = "and_condition"
    THEN and_condition(left_cond, right_cond)
    ELSE or_condition(left_cond, right_cond)

-----------------------------------------------------------------------------
(* engines/pandas_.py and engines/polars_.py: aggregation *)

\* Pandas_AggregateDataset.sum ... median give {agg_col_name: (col, "sum")},
\* Polars_AggregateDataset.sum ... median give pl.sum(col).alias(agg_col_name):
\* in both, the function, its source column and the name of the result.
AggExpr(func_agg_name, func_agg, name) ==
    [func |-> func_agg_name, col |-> func_agg.col_name, name |-> name]

\* The cells of column col, in row order, that are not missing.
NonNull(rows, col) ==
    LET F[i \in 0..Len(rows)] ==
            IF i = 0 THEN <<>>
            ELSE IF IsNullCell(rows[i][col]) THEN F[i - 1]
                 ELSE Append(F[i - 1], rows[i][col].n)
    IN F[Len(rows)]

RECURSIVE SumSeq(_)
SumSeq(s) == IF s = <<>> THEN 0 ELSE Head(s) + SumSeq(Tail(s))

MinSeq(s) == CHOOSE x \in Range(s) : \A y \in Range(s) : x <= y

MaxSeq(s) == CHOOSE x \in Range(s) : \A y \in Range(s) : x >= y

\* The k-th smallest element of s (1 <= k <= Len(s)).
KthSmallest(s, k) ==
    CHOOSE x \in Range(s) :
        /\ Cardinality({i \in 1..Len(s) : s[i] < x}) < k
        /\ Cardinality({i \in 1..Len(s) : s[i] <= x}) >= k

\* The aggregate of the integer column col over rows (missing cells skipped).
Aggregate(func, rows, col) ==
    LET xs == NonNull(rows, col)
        k == Len(xs)
    IN CASE func = "sum" -> IntCell(SumSeq(xs))
         [] func = "count" -> IntCell(k)
         [] func = "mean" -> IF k = 0 THEN Null ELSE [n |-> SumSeq(xs), d |-> k]
         [] func = "min" -> IF k = 0 THEN Null ELSE IntCell(MinSeq(xs))
         [] func = "max" -> IF k = 0 THEN Null ELSE IntCell(MaxSeq(xs))
         [] func = "median" ->
                IF k = 0 THEN Null
                ELSE IF k % 2 = 1 THEN IntCell(KthSmallest(xs, (k + 1) \div 2))
                ELSE [n |-> KthSmallest(xs, k \div 2)
                              + KthSmallest(xs, k \div 2 + 1),
                      d |-> 2]

\* The value of the grouping keys on a row.
KeyOf(row, keys) == [i \in 1..Len(keys) |-> row[keys[i]]]

HasNullKey(row, keys) == \E i \in 1..Len(keys) : IsNullCell(row[keys[i]])

\* The distinct key values of the rows, by first occurrence (the order of the
\* groups is not observed by any operation modelled here).  pandas drops the
\* rows with a missing key (dropna=True), polars keeps them as a group.
GroupKeys(be, rows, keys) ==
    LET F[i \in 0..Len(rows)] ==
            IF i = 0 THEN <<>>
            ELSE LET k == KeyOf(rows[i], keys) IN
                 IF \/ k \in Range(F[i - 1])
                    \/ (be = "pandas" /\ HasNullKey(rows[i], keys))
                 THEN F[i - 1]
                 ELSE Append(F[i - 1], k)
    IN F[Len(rows)]

\* The rows of one group.
GroupRows(rows, keys, k) ==
    SelectRows(rows, [i \in 1..Len(rows) |-> KeyOf(rows[i], keys) = k])

\* new_agg_cols_expr.update(expr) of pandas: one entry per result name, at
\* the place of its first occurrence, with the value of its last.
DedupByName(exprs) ==
    LET last_of(name) ==
            exprs[CHOOSE i \in 1..Len(exprs) :
                    /\ exprs[i].name = name
                    /\ \A j \in (i + 1)..Len(exprs) : exprs[j].name # name]
        F[i \in 0..Len(exprs)] ==
            IF i = 0 THEN <<>>
            ELSE IF \E j \in 1..(i - 1) : exprs[j].name = exprs[i].name
                 THEN F[i - 1]
                 ELSE Append(F[i - 1], last_of(exprs[i].name))
    IN F[Len(exprs)]

Names(exprs) == [i \in 1..Len(exprs) |-> exprs[i].name]

\* One row of the aggregated frame.
AggRow(ds, keys, k, exprs) ==
    LET rs == GroupRows(ds.rows, keys, k) IN
    [c \in Range(keys) \cup Range(Names(exprs)) |->
        IF c \in Range(Names(exprs))
        THEN LET e == exprs[CHOOSE i \in 1..Len(exprs) : exprs[i].name = c]
             IN Aggregate(e.func, rs, e.col)
        ELSE k[CHOOSE i \in 1..Len(keys) : keys[i] = c]]

\* Pandas_Engine.aggregate_dataset:
\*     self.dataset.groupby(*keys).agg(**new_agg_cols_expr)
\* groupby takes the second key as its axis argument; a key is a column or
\* an index level; agg reads columns only.  The keys become the index.
PandasAggregate(ds, keys, agg_cols_expr) ==
    LET exprs == DedupByName(agg_cols_expr) IN
    IF Len(keys) = 0
    THEN Exception("TypeError", "You have to supply one of 'by' and 'level'")
    ELSE IF Len(keys) > 1
    THEN Exception("ValueError", "No axis named " \o keys[2]
                                     \o " for object type DataFrame")
    ELSE IF keys[1] \notin Range(ds.cols) \cup Range(ds.index)
    THEN Exception("KeyError", keys[1])
    ELSE IF exprs = <<>>
    THEN Exception("TypeError",
                   "Must provide 'func' or tuples of '(column, aggfunc).")
    ELSE IF \E i \in 1..Len(exprs) : exprs[i].col \notin Range(ds.cols)
    THEN Exception("KeyError", "Column(s) do not exist")
    ELSE LET ks == GroupKeys("pandas", ds.rows, keys) IN
         Frame(Names(exprs), keys,
               [i \in 1..Len(ks) |-> AggRow(ds, keys, ks[i], exprs)], "agg")

\* Polars_Engine.aggregate_dataset:
\*     self.dataset.group_by(*keys).agg(*agg_cols_expr)
\* on a LazyFrame: nothing is raised here; a plan that names a missing column
\* raises when it is resolved.
PolarsAggregate(ds, keys, agg_cols_expr) ==
    IF ds.tag = "invalid"
    THEN InvalidFrame
    ELSE IF \/ \E i \in 1..Len(keys) : keys[i] \notin Range(ds.cols)
            \/ \E i \in 1..Len(agg_cols_expr) :
                    agg_cols_expr[i].col \notin Range(ds.cols)
    THEN InvalidFrame
    ELSE LET ks == GroupKeys("polars", ds.rows, keys) IN
         Frame(keys \o Names(agg_cols_expr), <<>>,
               [i \in 1..Len(ks) |-> AggRow(ds, keys, ks[i], agg_cols_expr)],
               "agg")

\* Engine.aggregate_dataset
aggregate_dataset(be, ds, keys, agg_cols_expr) ==
    IF be = "pandas"
    THEN PandasAggregate(ds, keys, agg_cols_expr)
    ELSE PolarsAggregate(ds, keys, agg_cols_expr)

\* Engine.get_schema, as the list of its keys: the columns of the frame.
\* Resolving the schema of an invalid polars plan raises.
get_schema(be, ds) ==
    IF ds.tag = "invalid"
    THEN Exception("ColumnNotFoundError", "unable to find column")
    ELSE ds.cols

\* A where that drops only the rows on which the expression is false.
where_KeepsNulls(be, ds, expression) ==
    Frame(ds.cols, ds.index,
          SelectRows(ds.rows,
                     [i \in 1..Len(ds.rows) |-> expression[i] # "false"]),
          "filter")

\* Engine.where: dataset[expression] (pandas), dataset.filter(expression)
\* (polars): the rows on which the expression is true.
where(be, ds, expression) ==
    Frame(ds.cols, ds.index,
          SelectRows(ds.rows,
                     [i \in 1..Len(ds.rows) |-> expression[i] = "true"]),
          "filter")

-----------------------------------------------------------------------------
(* core/metrics.py and Engine.execute_conditions *)

\* Metrics(rule=..., total_row_count=..., valid_row_count=...,
\* valid_row_count_pct=...); the timestamp is left out.  The percentage is a
\* rational n/d, NaN being 0/0.
Metrics(rule, total, valid, pct) ==
    [tag |-> "Metrics", rule |-> rule, total_row_count |-> total,
     valid_row_count |-> valid, valid_row_count_pct |-> pct]

NaN == [n |-> 0, d |-> 0]

\* round(x, 2) for x = n/d >= 0, as a number of hundredths (ties to even).
RoundHundredths(n, d) ==
    LET q == (n * 100) \div d
        r == (n * 100) % d
    IN IF 2 * r > d \/ (2 * r = d /\ q % 2 = 1) THEN q + 1 ELSE q

\* A sum that counts the rows on which the expression is missing too.
CountTrue_NotFalse(expr) ==
    Cardinality({i \in 1..Len(expr) : expr[i] # "false"})

\* condition.sum(): the number of rows on which the expression is true.
CountTrue(expr) == Cardinality({i \in 1..Len(expr) : expr[i] = "true"})

\* Pandas_Engine.execute_conditions: numpy's division by zero gives nan.
PandasMetrics(rule, total_count, valid_count) ==
    Metrics(rule, total_count, valid_count,
            IF total_count = 0 THEN NaN
            ELSE [n |-> RoundHundredths(valid_count * 100, total_count),
                  d |-> 100])

\* Polars_Engine.execute_conditions: (valid_count * 100) / total_count
PolarsMetrics(rule, total_count, valid_count) ==
    Metrics(rule, total_count, valid_count,
            [n |-> valid_count * 100, d |-> total_count])

\* An execute_conditions that gives the Metrics last rule first.
execute_conditions_Reversed(be, ds, conditions) ==
    LET total_count == Len(ds.rows)
        n == Len(conditions)
    IN IF be = "polars" /\ total_count = 0 /\ conditions # <<>>
       THEN Exception("ZeroDivisionError", "division by zero")
       ELSE [tag |-> "list",
             items |-> [i \in 1..n |->
                           IF be = "pandas"
                           THEN PandasMetrics(conditions[n + 1 - i].rule,
                                              total_count,
                                              CountTrue(conditions[n + 1 - i].expr))
                           ELSE PolarsMetrics(conditions[n + 1 - i].rule,
                                              total_count,
                                              CountTrue(conditions[n + 1 - i].expr))]]

\* Engine.execute_conditions(conditions), conditions being the dict as the
\* sequence of its items [rule, expr]: the list of Metrics, or the exception.
execute_conditions(be, ds, conditions) ==
    LET total_count == Len(ds.rows) IN
    IF be = "polars" /\ total_count = 0 /\ conditions # <<>>
    THEN Exception("ZeroDivisionError", "division by zero")
    ELSE [tag |-> "list",
          items |-> [i \in 1..Len(conditions) |->
                        IF be = "pandas"
                        THEN PandasMetrics(conditions[i].rule, total_count,
                                           CountTrue(conditions[i].expr))
                        ELSE PolarsMetrics(conditions[i].rule, total_count,
                                           CountTrue(conditions[i].expr))]]

-----------------------------------------------------------------------------
(* table.py: CalistaTable._evaluate_condition *)

\* What the evaluator and the engine were asked to do, in order.
Visit(condition) ==
    [ev |-> "evaluate", tag |-> condition.tag,
     is_aggregate |-> IF IsCondition(condition) THEN condition.is_aggregate
                      ELSE FALSE]

Call(method) == [ev |-> "call", tag |-> method, is_aggregate |-> FALSE]

Ok(expr, log) == [ok |-> TRUE, expr |-> expr, exc |-> None, log |-> log]

Raise(exc, log) == [ok |-> FALSE, expr |-> <<>>, exc |-> exc, log |-> log]

\* What the leaf case gives, r being what the method of the engine gave: its
\* value, or its exception (the lookup of the method raising before any call).
LeafResult(r, condition) ==
    IF ~r.ok
    THEN Raise(r.exc,
               IF r.exc.kind = "AttributeError"
               THEN <<Visit(condition)>>
               ELSE <<Visit(condition), Call(_camel_to_snake(condition.tag))>>)
    ELSE Ok(r.expr,
            <<Visit(condition), Call(_camel_to_snake(condition.tag))>>)

\* A schema check that looks at the first column of the leaf only, the
\* engine then failing on the other.
EvaluateLeaf_FirstOnly(be, ds, condition, checked) ==
    LET schema == get_schema(be, ds)
        log == <<Visit(condition)>>
    IN IF ds.tag = "invalid" THEN Raise(schema, log)
       ELSE IF checked[1] \notin Range(schema)
       THEN Raise(Exception("Exception",
                            ColumnNotFoundMsg(checked[1], schema)), log)
       ELSE IF \E i \in 1..Len(checked) : checked[i] \notin Range(schema)
       THEN Raise(Exception("KeyError", checked[Len(checked)]), log)
       ELSE LeafResult(CallLeaf(be, ds, condition), condition)

\* A leaf case that asks the engine for its method before it looks at the
\* schema.
EvaluateLeaf_DispatchFirst(be, ds, condition, checked) ==
    LET schema == get_schema(be, ds)
        log == <<Visit(condition)>>
    IN IF ds.tag = "invalid" THEN Raise(schema, log)
       ELSE IF \E i \in 1..Len(checked) : checked[i] \notin Range(schema)
       THEN LET i == CHOOSE j \in 1..Len(checked) :
                        /\ checked[j] \notin Range(schema)
                        /\ \A k \in 1..(j - 1) : checked[k] \in Range(schema)
            IN Raise(Exception("Exception",
                               ColumnNotFoundMsg(checked[i], schema)),
                     Append(log, Call(_camel_to_snake(condition.tag))))
       ELSE LeafResult(CallLeaf(be, ds, condition), condition)

\* The schema check of a leaf and its dispatch to the engine.
EvaluateLeaf(be, ds, condition, checked) ==
    LET schema == get_schema(be, ds)
        log == <<Visit(condition)>>
    IN IF ds.tag = "invalid" THEN Raise(schema, log)
       ELSE IF \E i \in 1..Len(checked) : checked[i] \notin Range(schema)
       THEN LET i == CHOOSE j \in 1..Len(checked) :
                        /\ checked[j] \notin Range(schema)
                        /\ \A k \in 1..(j - 1) : checked[k] \in Range(schema)
            IN Raise(Exception("Exception",
                               ColumnNotFoundMsg(checked[i], schema)), log)
       ELSE LeafResult(CallLeaf(be, ds, condition), condition)

\* The AND / OR case: the exception of the left side (the right side is then
\* not evaluated and leaves nothing in the log), else that of the right side,
\* else the call of the engine.
CombinatorResult(condition, left_cond, right_cond) ==
    IF ~left_cond.ok
    THEN Raise(left_cond.exc, <<Visit(condition)>> \o left_cond.log)
    ELSE IF ~right_cond.ok
    THEN Raise(right_cond.exc,
               <<Visit(condition)>> \o left_cond.log \o right_cond.log)
    ELSE Ok(CallCombinator(condition.tag, left_cond.expr, right_cond.expr),
            Append(<<Visit(condition)>> \o left_cond.log \o right_cond.log,
                   Call(_camel_to_snake(condition.tag))))

\* The end of the NOT case, the operand evaluated.
NotResult(condition, cond) ==
    IF ~cond.ok
    THEN Raise(cond.exc, <<Visit(condition)>> \o cond.log)
    ELSE Ok(not_condition(cond.expr),
            Append(<<Visit(condition)>> \o cond.log, Call("not_condition")))

RECURSIVE _evaluate_condition(_, _, _)
_evaluate_condition(be, ds, condition) ==
    IF condition.tag \in CombinatorTags
    THEN CombinatorResult(
             condition,
             _evaluate_condition(be, ds, condition.left),
             _evaluate_condition(be, ds, condition.right))
    ELSE IF condition.tag = "NotCondition"
    THEN NotResult(condition, _evaluate_condition(be, ds, condition.cond))
    ELSE IF condition.tag = "CompareColumnToColumn"
    THEN EvaluateLeaf(be, ds, condition,
                      <<condition.col_left, condition.col_right>>)
    ELSE IF condition.tag = "None"
    THEN Raise(Exception("AttributeError",
                         "'NoneType' object has no attribute 'col_name'"),
               <<Visit(condition)>>)
    ELSE EvaluateLeaf(be, ds, condition, <<condition.col_name>>)

-----------------------------------------------------------------------------
(* table.py: CalistaTable.analyze_rules, analyze, where *)

\* What a method of the API gives: its result (a value or the exception it
\* raises), what the evaluator and the engine were asked on the way, the
\* calls of aggregate_dataset, and the dataset its engine holds afterwards.
Outcome(result, log, agg_calls, dataset) ==
    [result |-> result, log |-> log, agg_calls |-> agg_calls,
     dataset |-> dataset]

\* The dict comprehension of analyze_rules: the rules evaluated in order, up
\* to the first that raises.  EvaluateRule is one item of it, e being what
\* _evaluate_condition gives on the rule.
EvaluateRule(sofar, rule_name, e) ==
    IF ~sofar.ok THEN sofar
    ELSE [ok |-> e.ok,
          conditions |-> IF e.ok
                         THEN Append(sofar.conditions,
                                     [rule |-> rule_name, expr |-> e.expr])
                         ELSE <<>>,
          exc |-> e.exc,
          log |-> sofar.log \o e.log]

EvaluateRules(be, ds, rules) ==
    LET F[i \in 0..Len(rules)] ==
            IF i = 0 THEN [ok |-> TRUE, conditions |-> <<>>, exc |-> None,
                           log |-> <<>>]
            ELSE EvaluateRule(F[i - 1], rules[i].rule,
                              _evaluate_condition(be, ds, rules[i].cond))
    IN F[Len(rules)]

\* CalistaTable.analyze_rules(rules), rules being the dict as the sequence of
\* its items [rule, cond]; ExecuteRules is its return statement, e being the
\* evaluated dict.
ExecuteRules(be, ds, e) ==
    IF ~e.ok THEN Outcome(e.exc, e.log, <<>>, ds)
    ELSE Outcome(execute_conditions(be, ds, e.conditions),
                 Append(e.log, Call("execute_conditions")), <<>>, ds)

analyze_rules(be, ds, rules) ==
    ExecuteRules(be, ds, EvaluateRules(be, ds, rules))

\* The [0] of analyze.
FirstOf(result) == IF result.tag = "list" THEN result.items[1] ELSE result

\* CalistaTable.analyze(rule_name, condition)
analyze(be, ds, rule_name, condition) ==
    [analyze_rules(be, ds, <<[rule |-> rule_name, cond |-> condition]>>)
        EXCEPT !.result = FirstOf(@)]

\* The else branch of where, e being the evaluated condition.
Filter(be, ds, e) ==
    IF ~e.ok THEN Outcome(e.exc, e.log, <<>>, ds)
    ELSE Outcome(where(be, ds, e.expr), Append(e.log, Call("filter")),
                 <<>>, ds)

\* CalistaTable.where(condition), up to the construction of the new engine:
\* the filtered dataset, or the exception.
table_where(be, ds, condition) ==
    IF IsCondition(condition) /\ condition.is_aggregate
    THEN Outcome(Exception("Exception",
                           "Cannot apply filter for AggregateCondition"),
                 <<>>, <<>>, ds)
    ELSE Filter(be, ds, _evaluate_condition(be, ds, condition))

\* A check of the first key only.
group_by_check_FirstOnly(be, ds, cols) ==
    LET schema == get_schema(be, ds) IN
    IF ds.tag = "invalid" THEN schema
    ELSE IF cols[1] \notin Range(schema)
    THEN Exception("Exception", ColumnNotFoundMsg(cols[1], schema))
    ELSE None

\* CalistaTable.group_by(*cols), up to the construction of the GroupedTable:
\* None, or the exception of the first key that is no column.
group_by_check(be, ds, cols) ==
    LET schema == get_schema(be, ds) IN
    IF ds.tag = "invalid" THEN schema
    ELSE IF \E i \in 1..Len(cols) : cols[i] \notin Range(schema)
    THEN LET i == CHOOSE j \in 1..Len(cols) :
                     /\ cols[j] \notin Range(schema)
                     /\ \A k \in 1..(j - 1) : cols[k] \in Range(schema)
         IN Exception("Exception", ColumnNotFoundMsg(cols[i], schema))
    ELSE None

-----------------------------------------------------------------------------
(* group.py: GroupedTable *)

\* func_agg.__class__.__name__.lower()
LowerName(tag) ==
    CASE tag = "Sum" -> "sum"
      [] tag = "Count" -> "count"
      [] tag = "Mean" -> "mean"
      [] tag = "Min" -> "min"
      [] tag = "Max" -> "max"
      [] tag = "Median" -> "median"

\* A leaf case that appends without looking at seen.
ParseLeaf_NoSeen(acc, agg_cond) ==
    LET func_agg == get_func_agg(agg_cond)
        name == agg_col_name(func_agg)
        func_agg_name == LowerName(func_agg.tag)
    IN [acc EXCEPT
          !.agg_cols_expr = Append(@, AggExpr(func_agg_name, func_agg, name)),
          !.seen = @ \cup {name}]

\* A leaf case that remembers the source columns seen, not the names.
ParseLeaf_SeenByColumn(acc, agg_cond) ==
    LET func_agg == get_func_agg(agg_cond)
        name == agg_col_name(func_agg)
        func_agg_name == LowerName(func_agg.tag)
    IN IF func_agg.col_name \notin acc.seen
       THEN [acc EXCEPT
               !.agg_cols_expr =
                   Append(@, AggExpr(func_agg_name, func_agg, name)),
               !.seen = @ \cup {func_agg.col_name}]
       ELSE acc

\* The  case _:  of parse, on a leaf that has get_func_agg.
ParseLeaf(acc, agg_cond) ==
    LET func_agg == get_func_agg(agg_cond)
        name == agg_col_name(func_agg)
        func_agg_name == LowerName(func_agg.tag)
    IN IF name \notin acc.seen
       THEN [acc EXCEPT
               !.agg_cols_expr =
                   Append(@, AggExpr(func_agg_name, func_agg, name)),
               !.seen = @ \cup {name}]
       ELSE acc

\* A parse that goes into the right side of a combinator first.
RECURSIVE parse_RightFirst(_, _)
parse_RightFirst(acc, agg_cond) ==
    IF acc.exc # None THEN acc
    ELSE IF agg_cond.tag \in CombinatorTags
    THEN parse_RightFirst(parse_RightFirst(acc, agg_cond.right), agg_cond.left)
    ELSE IF agg_cond.tag \notin AggregateByTags
    THEN [acc EXCEPT !.exc =
            Exception("AttributeError",
                      "'" \o agg_cond.tag
                          \o "' object has no attribute 'get_func_agg'")]
    ELSE ParseLeaf(acc, agg_cond)

\* The nested function parse of _evaluate_aggregates; acc holds agg_cols_expr,
\* seen and the exception raised so far, if any.
RECURSIVE parse(_, _)
parse(acc, agg_cond) ==
    IF acc.exc # None THEN acc
    ELSE IF agg_cond.tag \in CombinatorTags
    THEN parse(parse(acc, agg_cond.left), agg_cond.right)
    ELSE IF agg_cond.tag \notin AggregateByTags
    THEN [acc EXCEPT !.exc =
            Exception("AttributeError",
                      "'" \o agg_cond.tag
                          \o "' object has no attribute 'get_func_agg'")]
    ELSE ParseLeaf(acc, agg_cond)

\* The loop  for condition in conditions: parse(condition)
ParseAll(conditions) ==
    LET F[i \in 0..Len(conditions)] ==
            IF i = 0 THEN [agg_cols_expr |-> <<>>, seen |-> {}, exc |-> None]
            ELSE parse(F[i - 1], conditions[i])
    IN F[Len(conditions)]

\* GroupedTable._evaluate_aggregates(conditions): the aggregated dataset or
\* the exception, and the calls of aggregate_dataset.  AggregateParsed is its
\* return statement, p being what the loop of parse has gathered.
AggregateParsed(be, ds, agg_keys, p) ==
    IF p.exc # None THEN [result |-> p.exc, agg_calls |-> <<>>]
    ELSE [result |-> aggregate_dataset(be, ds, agg_keys, p.agg_cols_expr),
          agg_calls |-> <<[keys |-> agg_keys, exprs |-> p.agg_cols_expr]>>]

_evaluate_aggregates(be, ds, agg_keys, conditions) ==
    AggregateParsed(be, ds, agg_keys, ParseAll(conditions))

Conds(rules) == [i \in 1..Len(rules) |-> rules[i].cond]

\* What a method of GroupedTable gives, a being what _evaluate_aggregates
\* gave and o what the table made on the aggregated dataset gave.
OnAggregated(a, o) == Outcome(o.result, o.log, a.agg_calls, a.result)

\* GroupedTable.analyze after its first statement, a being the aggregated
\* dataset.
AnalyzeAggregated(be, ds, a, rule_name, condition) ==
    IF IsException(a.result) THEN Outcome(a.result, <<>>, a.agg_calls, ds)
    ELSE OnAggregated(a, analyze(be, a.result, rule_name,
                                 get_conditions_as_func_check(condition)))

\* GroupedTable.analyze(rule_name, condition)
grouped_analyze(be, ds, agg_keys, rule_name, condition) ==
    AnalyzeAggregated(be, ds,
                      _evaluate_aggregates(be, ds, agg_keys, <<condition>>),
                      rule_name, condition)

\* An analyze_rules that aggregates rule by rule.
grouped_analyze_rules_PerRule(be, ds, agg_keys, rules) ==
    LET per == [i \in 1..Len(rules) |->
                   grouped_analyze(be, ds, agg_keys, rules[i].rule,
                                   rules[i].cond)]
        calls[i \in 0..Len(rules)] ==
            IF i = 0 THEN <<>> ELSE calls[i - 1] \o per[i].agg_calls
        logs[i \in 0..Len(rules)] ==
            IF i = 0 THEN <<>> ELSE logs[i - 1] \o per[i].log
    IN IF \E i \in 1..Len(rules) : IsException(per[i].result)
       THEN LET i == CHOOSE j \in 1..Len(rules) :
                        /\ IsException(per[j].result)
                        /\ \A k \in 1..(j - 1) : ~IsException(per[k].result)
            IN Outcome(per[i].result, logs[i], calls[i], ds)
       ELSE Outcome([tag |-> "list",
                     items |-> [i \in 1..Len(rules) |-> per[i].result]],
                    logs[Len(rules)], calls[Len(rules)],
                    per[Len(rules)].dataset)

\* GroupedTable.analyze_rules(rules): the engine's dataset is replaced by
\* the aggregated one, then the check-trees are analysed on it.
\* AnalyzeRulesAggregated is the method after its first statement.
AnalyzeRulesAggregated(be, ds, a, rules) ==
    IF IsException(a.result) THEN Outcome(a.result, <<>>, a.agg_calls, ds)
    ELSE OnAggregated(
             a,
             analyze_rules(
                 be, a.result,
                 [i \in 1..Len(rules) |->
                     [rule |-> rules[i].rule,
                      cond |-> get_conditions_as_func_check(rules[i].cond)]]))

grouped_analyze_rules(be, ds, agg_keys, rules) ==
    AnalyzeRulesAggregated(be, ds,
                           _evaluate_aggregates(be, ds, agg_keys, Conds(rules)),
                           rules)

-----------------------------------------------------------------------------
(* The inputs of the session *)

MaxObjects == 2     \* CalistaTable and GroupedTable objects of a session

MaxKeys == 2        \* columns given to one group_by

MaxRules == 2       \* rules given to one analyze_rules

Row(team, points) == [c \in {"TEAM", "POINTS"} |->
                         IF c = "TEAM" THEN team ELSE points]

\* {"TEAM": [red, red, red, blue, blue, blue],
\*  "POINTS": [10, 20, 30, 40, 20, 10]}, red being 1 and blue 2.
TeamPoints ==
    Frame(<<"TEAM", "POINTS">>, <<>>,
          <<Row(IntCell(1), IntCell(10)), Row(IntCell(1), IntCell(20)),
            Row(IntCell(1), IntCell(30)), Row(IntCell(2), IntCell(40)),
            Row(IntCell(2), IntCell(20)), Row(IntCell(2), IntCell(10))>>,
          "load")

\* A dataset with missing values, in the key column too.
WithNulls ==
    Frame(<<"TEAM", "POINTS">>, <<>>,
          <<Row(IntCell(1), Null), Row(IntCell(1), IntCell(70)),
            Row(IntCell(2), Null), Row(Null, IntCell(5))>>,
          "load")

Datasets == {TeamPoints, WithNulls}

\* "DATE" and "NOPE" are columns of no dataset.
KeyLists ==
    {<<"TEAM">>, <<"DATE">>, <<"TEAM", "POINTS">>, <<"TEAM", "DATE">>,
     <<"DATE", "TEAM">>, <<"TEAM", "POINTS", "DATE">>,
     <<"TEAM", "POINTS", "DATE", "NOPE">>}

KeyChoices == {q \in KeyLists : Len(q) <= MaxKeys}

RECURSIVE SeqsUpTo(_, _)
SeqsUpTo(S, n) ==
    IF n = 0 THEN {<<>>}
    ELSE LET shorter == SeqsUpTo(S, n - 1) IN
         shorter \cup {Append(q, x) : q \in {r \in shorter : Len(r) = n - 1},
                                      x \in S}

is_null_points == IsNull("POINTS")
points_gt_15 == CompareColumnToValue("POINTS", ">", 15)
is_null_date == IsNull("DATE")
team_lt_points == CompareColumnToColumn("TEAM", "<", "POINTS")
date_eq_nope == CompareColumnToColumn("DATE", "=", "NOPE")
team_eq_date == CompareColumnToColumn("TEAM", "=", "DATE")

sum_gt_60 == AggregateBy("SumBy", "POINTS", ">", 60)
sum_lt_100 == AggregateBy("SumBy", "POINTS", "<", 100)
count_ge_3 == AggregateBy("CountBy", "POINTS", ">=", 3)
sum_date_gt_0 == AggregateBy("SumBy", "DATE", ">", 0)

Leaves ==
    {is_null_points, points_gt_15, is_null_date, team_lt_points,
     date_eq_nope, team_eq_date}

AggregateLeaves ==
    {sum_gt_60, sum_lt_100, count_ge_3, sum_date_gt_0}

\* The trees given to the tables, built with &, | and ~ from the leaves.
Trees ==
    Leaves \cup AggregateLeaves \cup
    {CondInvert(is_null_points), CondInvert(CondInvert(points_gt_15)),
     CondInvert(is_null_date), CondInvert(sum_gt_60),
     CondAnd(is_null_points, points_gt_15),
     CondOr(points_gt_15, is_null_points),
     CondAnd(points_gt_15, is_null_date),
     CondAnd(is_null_date, points_gt_15),
     CondOr(date_eq_nope, team_eq_date),
     CondAnd(sum_gt_60, sum_lt_100),
     CondAnd(sum_lt_100, sum_gt_60),
     CondOr(sum_gt_60, count_ge_3),
     CondOr(CondAnd(sum_gt_60, count_ge_3), sum_lt_100),
     CondAnd(count_ge_3, sum_date_gt_0),
     CondAnd(CondInvert(sum_gt_60), is_null_points),
     CondOr(is_null_points, CondInvert(sum_lt_100))}

\* The trees given as the rules of one analyze_rules of a CalistaTable.
RuleTrees ==
    {is_null_points, points_gt_15, is_null_date, sum_gt_60}

\* The trees given as the rules of one analyze_rules of a GroupedTable.
GroupRuleTrees ==
    {sum_gt_60, sum_lt_100, count_ge_3, is_null_points}

RuleNames == <<"r1", "r2", "r3", "r4">>

\* The dicts of rules: up to MaxRules rules, named r1, r2, ... in order.
Dicts(trees) ==
    {[i \in 1..Len(q) |-> [rule |-> RuleNames[i], cond |-> q[i]]] :
        q \in SeqsUpTo(trees, MaxRules) \ {<<>>}}

RuleDicts == Dicts(RuleTrees)

GroupRuleDicts == Dicts(GroupRuleTrees)

\* The trees given to where.
Filters ==
    {points_gt_15, CondInvert(is_null_points), is_null_date,
     CondAnd(is_null_points, points_gt_15), sum_gt_60, CondInvert(sum_gt_60)}

\* The operands of &, | and ~ in the algebra of conditions.
Operands ==
    Trees \cup {NotACondition}

-----------------------------------------------------------------------------
(* The session *)

Idle == [op |-> "idle"]

\* A call of the API and what it gave.
CallRecord(op, self, args, keys, before, o) ==
    [op |-> op, self |-> self, args |-> args, keys |-> keys,
     before |-> before, result |-> o.result, log |-> o.log,
     agg_calls |-> o.agg_calls]

Init ==
    /\ backend \in Backends
    /\ engines = <<NoDataset>>
    /\ tables = <<>>
    /\ groups = <<>>
    /\ last = Idle

\* table = CalistaEngine.load(data=...): the one engine of the CalistaEngine
\* reads the dataset and is handed to the new CalistaTable.
Load(d) ==
    /\ last = Idle
    /\ Len(tables) + Len(groups) < MaxObjects
    /\ engines' = [engines EXCEPT ![1] = d]
    /\ tables' = Append(tables, 1)
    /\ last' = CallRecord("load", 0, <<>>, <<>>, engines[1],
                          Outcome([tag |-> "CalistaTable",
                                   id |-> Len(tables) + 1], <<>>, <<>>, d))
    /\ UNCHANGED <<backend, groups>>

\* A group_by whose GroupedTable keeps the engine of the table.
GroupBy_SharedEngine(t, cols) ==
    /\ last = Idle
    /\ Len(tables) + Len(groups) < MaxObjects
    /\ LET ds == engines[tables[t]]
           exc == group_by_check(backend, ds, cols)
       IN IF exc # None
          THEN /\ last' = CallRecord("group_by", t, <<>>, cols, ds,
                                     Outcome(exc, <<>>, <<>>, ds))
               /\ UNCHANGED <<engines, groups>>
          ELSE /\ engines' = engines
               /\ groups' = Append(groups, [engine |-> tables[t],
                                            agg_keys |-> cols])
               /\ last' = CallRecord("group_by", t, <<>>, cols, ds,
                                     Outcome([tag |-> "GroupedTable",
                                              id |-> Len(groups) + 1],
                                             <<>>, <<>>, ds))
    /\ UNCHANGED <<backend, tables>>

\* grouped = table.group_by(*cols): GroupedTable.__init__ makes a new engine
\* on the dataset of the table's engine.
GroupBy(t, cols) ==
    /\ last = Idle
    /\ Len(tables) + Len(groups) < MaxObjects
    /\ LET ds == engines[tables[t]]
           exc == group_by_check(backend, ds, cols)
       IN IF exc # None
          THEN /\ last' = CallRecord("group_by", t, <<>>, cols, ds,
                                     Outcome(exc, <<>>, <<>>, ds))
               /\ UNCHANGED <<engines, groups>>
          ELSE /\ engines' = Append(engines, ds)
               /\ groups' = Append(groups, [engine |-> Len(engines) + 1,
                                            agg_keys |-> cols])
               /\ last' = CallRecord("group_by", t, <<>>, cols, ds,
                                     Outcome([tag |-> "GroupedTable",
                                              id |-> Len(groups) + 1],
                                             <<>>, <<>>, ds))
    /\ UNCHANGED <<backend, tables>>

\* The end of where, o being the filtered dataset or the exception.
NewTable(t, condition, ds, o) ==
    IF IsException(o.result)
    THEN /\ last' = CallRecord("where", t,
                               <<[rule |-> "", cond |-> condition]>>,
                               <<>>, ds, o)
         /\ UNCHANGED <<engines, tables>>
    ELSE /\ engines' = Append(engines, o.result)
         /\ tables' = Append(tables, Len(engines) + 1)
         /\ last' = CallRecord("where", t,
                               <<[rule |-> "", cond |-> condition]>>,
                               <<>>, ds,
                               [o EXCEPT !.result =
                                  [tag |-> "CalistaTable",
                                   id |-> Len(tables) + 1]])

\* filtered = table.where(condition): create_new_instance_from_dataset makes
\* a new engine on the filtered dataset.
Where(t, condition) ==
    /\ last = Idle
    /\ Len(tables) + Len(groups) < MaxObjects
    /\ NewTable(t, condition, engines[tables[t]],
                table_where(backend, engines[tables[t]], condition))
    /\ UNCHANGED <<backend, groups>>

\* table.analyze("r1", condition)
Analyze(t, condition) ==
    /\ last = Idle
    /\ LET ds == engines[tables[t]] IN
       last' = CallRecord("analyze", t, <<[rule |-> "r1", cond |-> condition]>>,
                          <<>>, ds, analyze(backend, ds, "r1", condition))
    /\ UNCHANGED <<backend, engines, tables, groups>>

\* table.analyze_rules(rules)
AnalyzeRules(t, rules) ==
    /\ last = Idle
    /\ LET ds == engines[tables[t]] IN
       last' = CallRecord("analyze_rules", t, rules, <<>>, ds,
                          analyze_rules(backend, ds, rules))
    /\ UNCHANGED <<backend, engines, tables, groups>>

\* What a method of the GroupedTable g leaves: the dataset of its engine,
\* and the record of the call.
OnGroup(op, g, args, o) ==
    /\ engines' = [engines EXCEPT ![groups[g].engine] = o.dataset]
    /\ last' = CallRecord(op, g, args, groups[g].agg_keys,
                          engines[groups[g].engine], o)

\* grouped.analyze("r1", condition)
GroupedAnalyze(g, condition) ==
    /\ last = Idle
    /\ OnGroup("grouped_analyze", g, <<[rule |-> "r1", cond |-> condition]>>,
               grouped_analyze(backend, engines[groups[g].engine],
                               groups[g].agg_keys, "r1", condition))
    /\ UNCHANGED <<backend, tables, groups>>

\* grouped.analyze_rules(rules)
GroupedAnalyzeRules(g, rules) ==
    /\ last = Idle
    /\ OnGroup("grouped_analyze_rules", g, rules,
               grouped_analyze_rules(backend, engines[groups[g].engine],
                                     groups[g].agg_keys, rules))
    /\ UNCHANGED <<backend, tables, groups>>

\* The session goes on to its next statement.
Return ==
    /\ last # Idle
    /\ last' = Idle
    /\ UNCHANGED <<backend, engines, tables, groups>>

Next ==
    \/ \E d \in Datasets : Load(d)
    \/ \E t \in 1..Len(tables), cols \in KeyChoices : GroupBy(t, cols)
    \/ \E t \in 1..Len(tables), c \in Filters : Where(t, c)
    \/ \E t \in 1..Len(tables), c \in Trees : Analyze(t, c)
    \/ \E t \in 1..Len(tables), rules \in RuleDicts : AnalyzeRules(t, rules)
    \/ \E g \in 1..Len(groups), c \in Trees : GroupedAnalyze(g, c)
    \/ \E g \in 1..Len(groups), rules \in GroupRuleDicts :
          GroupedAnalyzeRules(g, rules)
    \/ Return

Spec == Init /\ [][Next]_vars

-----------------------------------------------------------------------------
(* The algebra of conditions: the operators &, | and ~ of Condition, and the
   evaluation of the trees they build *)

\* self & other
OpAnd(self, other) ==
    /\ last = Idle
    /\ last' = [op |-> "and", self |-> self, other |-> other,
                result |-> CondAnd(self, other)]
    /\ UNCHANGED <<backend, engines, tables, groups>>

\* self | other
OpOr(self, other) ==
    /\ last = Idle
    /\ last' = [op |-> "or", self |-> self, other |-> other,
                result |-> CondOr(self, other)]
    /\ UNCHANGED <<backend, engines, tables, groups>>

\* ~self
OpInvert(self) ==
    /\ last = Idle
    /\ last' = [op |-> "invert", self |-> self, other |-> None,
                result |-> CondInvert(self)]
    /\ UNCHANGED <<backend, engines, tables, groups>>

\* CalistaTable._evaluate_condition on the tree just built, the engine of
\* the table holding the dataset d.
EvaluateCondition(d) ==
    /\ last # Idle
    /\ last.op \in {"and", "or", "invert"}
    /\ IsCondition(last.result)
    /\ last' = [op |-> "evaluate", condition |-> last.result, dataset |-> d,
                value |-> _evaluate_condition(backend, d, last.result)]
    /\ UNCHANGED <<backend, engines, tables, groups>>

\* Condition.get_conditions_as_func_check on the tree just built with & or
\* |, as the grouped table asks of the condition it is given.
CheckOfBuilt ==
    /\ last # Idle
    /\ last.op \in {"and", "or"}
    /\ IsCondition(last.result)
    /\ last' = [op |-> "get_conditions_as_func_check", self |-> last.result,
                result |-> get_conditions_as_func_check(last.result)]
    /\ UNCHANGED <<backend, engines, tables, groups>>

Conditions == {x \in Operands : IsCondition(x)}

NextCond ==
    \/ \E self \in Conditions, other \in Operands : OpAnd(self, other)
    \/ \E self \in Conditions, other \in Operands : OpOr(self, other)
    \/ \E self \in Conditions : OpInvert(self)
    \/ \E d \in Datasets : EvaluateCondition(d)
    \/ CheckOfBuilt
    \/ Return

SpecCond == Init /\ [][NextCond]_vars

-----------------------------------------------------------------------------
(* The rewriting of aggregate conditions: get_func_agg, get_func_check,
   get_conditions_as_func_check and the loop of parse, on the six aggregate
   classes *)

\* The aggregate leaves the functions of core/functions.py build: every
\* class, on two columns, with two operators and two values; and those a
\* caller builds from the classes with an operator that no engine maps.
AggregateByLeaves ==
    {AggregateBy(tag, col_name, operator, value) :
        tag \in AggregateByTags, col_name \in {"POINTS", "SALARY"},
        operator \in {">", "<=", "~"}, value \in {10, 60}}

\* The trees built with & and | from three aggregate leaves, up to two
\* operators deep, on either side.
AggregateTrees ==
    LET L == {sum_gt_60, sum_lt_100, count_ge_3}
        Pairs == {CondAnd(a, b) : a, b \in L} \cup {CondOr(a, b) : a, b \in L}
    IN L \cup Pairs
         \cup {CondAnd(a, b) : a \in Pairs, b \in L}
         \cup {CondOr(a, b) : a \in L, b \in Pairs}

\* The lists of conditions given to _evaluate_aggregates.
AggregateLists ==
    LET T == {sum_gt_60, sum_lt_100, count_ge_3, sum_date_gt_0,
              AggregateBy("MaxBy", "POINTS", ">", 10),
              CondAnd(sum_gt_60, sum_lt_100),
              CondOr(count_ge_3, CondAnd(sum_lt_100, sum_date_gt_0))}
    IN SeqsUpTo(T, MaxRules) \ {<<>>}

\* func_agg = self.get_func_agg(); func_agg.agg_col_name
GetFuncAgg(self) ==
    /\ last = Idle
    /\ last' = [op |-> "get_func_agg", self |-> self,
                result |-> get_func_agg(self),
                agg_col_name |-> agg_col_name(get_func_agg(self))]
    /\ UNCHANGED <<backend, engines, tables, groups>>

\* self.get_func_check()
GetFuncCheck(self) ==
    /\ last = Idle
    /\ last' = [op |-> "get_func_check", self |-> self,
                result |-> get_func_check(self)]
    /\ UNCHANGED <<backend, engines, tables, groups>>

\* self.get_conditions_as_func_check()
GetConditionsAsFuncCheck(self) ==
    /\ last = Idle
    /\ last' = [op |-> "get_conditions_as_func_check", self |-> self,
                result |-> get_conditions_as_func_check(self)]
    /\ UNCHANGED <<backend, engines, tables, groups>>

\* The rewrite of a list of aggregate trees: the loop of parse over the
\* list, which gathers the expressions given to aggregate_dataset, and the
\* check-tree of each.
Rewrite(conditions) ==
    /\ last = Idle
    /\ last' = [op |-> "rewrite", conditions |-> conditions,
                agg_cols_expr |-> ParseAll(conditions).agg_cols_expr,
                checks |-> [i \in 1..Len(conditions) |->
                              get_conditions_as_func_check(conditions[i])]]
    /\ UNCHANGED <<backend, engines, tables, groups>>

NextAgg ==
    \/ \E self \in AggregateByLeaves : GetFuncAgg(self)
    \/ \E self \in AggregateByLeaves : GetFuncCheck(self)
    \/ \E self \in AggregateTrees \cup Leaves : GetConditionsAsFuncCheck(self)
    \/ \E conditions \in AggregateLists : Rewrite(conditions)
    \/ Return

SpecAgg == Init /\ [][NextAgg]_vars

-----------------------------------------------------------------------------
(* Negation: ~ applied to a leaf, ~ applied to the result, and the
   evaluation of what they build *)

\* ~last.result, on the NotCondition a first ~ has built from a leaf.
OpInvertAgain ==
    /\ last # Idle
    /\ last.op = "invert"
    /\ IsCondition(last.result)
    /\ last.self.tag # "NotCondition"
    /\ last' = [op |-> "invert", self |-> last.result, other |-> None,
                result |-> CondInvert(last.result)]
    /\ UNCHANGED <<backend, engines, tables, groups>>

NextNot ==
    \/ \E self \in Leaves \cup AggregateLeaves : OpInvert(self)
    \/ OpInvertAgain
    \/ \E d \in Datasets : EvaluateCondition(d)
    \/ Return

SpecNot == Init /\ [][NextNot]_vars

-----------------------------------------------------------------------------
(* The claims *)

MixedKindMsg == "Cannot combine Condition with AggregateCondition"

\* The last statement was  self & other  or  self | other  on two Conditions.
Combined ==
    /\ last # Idle
    /\ last.op \in {"and", "or"}
    /\ IsCondition(last.other)

\* C1: a & b and a | b on two Conditions whose is_aggregate differ raise the
\* exception of message "Cannot combine Condition with AggregateCondition",
\* whichever of the two is on the left, and give no combinator node.
C1_MixedKindsRaise ==
    (Combined /\ last.self.is_aggregate # last.other.is_aggregate)
        => last.result = Exception("Exception", MixedKindMsg)

\* An aggregate on the left of a row-wise condition, and the other way round,
\* have been combined with & and with | and have raised.
C1_Witness ==
    /\ Combined
    /\ last.self.is_aggregate # last.other.is_aggregate
    /\ last.self = sum_gt_60
    /\ last.other = is_null_points
    /\ last.op = "or"
    /\ IsException(last.result)

\* The last statement was the evaluation of an AND or an OR of two
\* conditions that are not aggregates.
EvaluatedRowWise ==
    /\ last # Idle
    /\ last.op = "evaluate"
    /\ last.condition.tag \in CombinatorTags
    /\ ~last.condition.left.is_aggregate
    /\ ~last.condition.right.is_aggregate

\* C2: a & b and a | b on two Conditions of equal is_aggregate give the
\* combinator node of the two; and the evaluation of an AND (an OR) of two
\* non-aggregate conditions is and_condition (or_condition) of the engine on
\* the two evaluated separately, left first, or the exception of the first
\* of the two that raises.
C2_SameKindCombine ==
    /\ (Combined /\ last.self.is_aggregate = last.other.is_aggregate)
          => /\ IsCondition(last.result)
             /\ last.result.tag =
                    (IF last.op = "and" THEN "AndCondition" ELSE "OrCondition")
             /\ {last.result.left, last.result.right} = {last.self, last.other}
             /\ last.result.is_aggregate = last.self.is_aggregate
    /\ EvaluatedRowWise
          => LET l == _evaluate_condition(backend, last.dataset,
                                          last.condition.left)
                 r == _evaluate_condition(backend, last.dataset,
                                          last.condition.right)
             IN IF ~l.ok THEN ~last.value.ok /\ last.value.exc = l.exc
                ELSE IF ~r.ok THEN ~last.value.ok /\ last.value.exc = r.exc
                ELSE /\ last.value.ok
                     /\ last.value.expr =
                            (IF last.condition.tag = "AndCondition"
                             THEN and_condition(l.expr, r.expr)
                             ELSE or_condition(l.expr, r.expr))

\* An OR of two row-wise conditions that differ from their AND has been
\* built and evaluated without an exception.
C2_Witness ==
    /\ EvaluatedRowWise
    /\ last.condition.tag = "OrCondition"
    /\ last.value.ok
    /\ last.value.expr #
          and_condition(
              _evaluate_condition(backend, last.dataset,
                                  last.condition.left).expr,
              _evaluate_condition(backend, last.dataset,
                                  last.condition.right).expr)

\* The last statement was analyze or analyze_rules of a GroupedTable.
GroupedCall ==
    /\ last # Idle
    /\ last.op \in {"grouped_analyze", "grouped_analyze_rules"}

\* The aggregate leaves of a tree, from left to right.
RECURSIVE AggLeaves(_)
AggLeaves(c) ==
    IF c.tag \in CombinatorTags THEN AggLeaves(c.left) \o AggLeaves(c.right)
    ELSE IF c.tag \in AggregateByTags THEN <<c>>
    ELSE <<>>

\* The (function, column) pairs of the aggregate leaves of the rules given.
PairsAsked(args) ==
    UNION {{<<LowerName(FuncTagOf(l.tag)), l.col_name>> :
                l \in Range(AggLeaves(args[i].cond))} : i \in 1..Len(args)}

\* C3: the aggregation expressions given to aggregate_dataset hold one
\* expression for each (function, column) pair of the leaves of the trees
\* and no two expressions for one pair, however many leaves, branches or
\* rules name the pair and in whatever order.
C3_OneExprPerPair ==
    GroupedCall =>
        \A k \in 1..Len(last.agg_calls) :
            LET exprs == last.agg_calls[k].exprs IN
            /\ \A i, j \in 1..Len(exprs) :
                   (exprs[i].func = exprs[j].func /\ exprs[i].col = exprs[j].col)
                       => i = j
            /\ {<<exprs[i].func, exprs[i].col>> : i \in 1..Len(exprs)}
                   = PairsAsked(last.args)

\* One tree with two leaves on the sum of POINTS, of different operators and
\* values, has been aggregated with one expression.
C3_Witness ==
    /\ GroupedCall
    /\ last.args[1].cond = CondAnd(sum_gt_60, sum_lt_100)
    /\ Len(last.agg_calls) = 1
    /\ Len(last.agg_calls[1].exprs) = 1

\* The last statement was one of the five methods that evaluate conditions.
EvaluatingCall ==
    /\ last # Idle
    /\ last.op \in {"analyze", "analyze_rules", "where", "grouped_analyze",
                     "grouped_analyze_rules"}

\* C4: in no evaluation started by analyze, analyze_rules or where of a
\* CalistaTable, or by analyze or analyze_rules of a GroupedTable, is
\* _evaluate_condition applied to a node whose is_aggregate is true.
C4_NoAggregateEvaluated ==
    EvaluatingCall =>
        \A i \in 1..Len(last.log) :
            last.log[i].ev = "evaluate" => ~last.log[i].is_aggregate

\* ~c for an aggregate condition c.
NotOfAggregate(c) ==
    /\ IsCondition(c)
    /\ c.tag = "NotCondition"
    /\ c.cond.is_aggregate

\* C5: the negation of an aggregate condition combined with a leaf that is
\* no aggregate, by & or |, in either order, raises the exception of message
\* "Cannot combine Condition with AggregateCondition".
C5_NegatedAggregateRaises ==
    (/\ Combined
     /\ \/ NotOfAggregate(last.self) /\ last.other \in Leaves
        \/ NotOfAggregate(last.other) /\ last.self \in Leaves)
        => last.result = Exception("Exception", MixedKindMsg)

\* A tree of aggregate leaves under AND and OR.
RECURSIVE AllAggregate(_)
AllAggregate(c) ==
    IF c.tag \in CombinatorTags
    THEN AllAggregate(c.left) /\ AllAggregate(c.right)
    ELSE c.tag \in AggregateByTags

\* The aggregate leaves of the rules, rule after rule.
LeavesOfRules(args) ==
    LET F[i \in 0..Len(args)] ==
            IF i = 0 THEN <<>> ELSE F[i - 1] \o AggLeaves(args[i].cond)
    IN F[Len(args)]

\* One expression for each aggregate column named by the leaves, in the
\* order of the first leaf that names it.
FirstOccurrences(leaves) ==
    LET F[i \in 0..Len(leaves)] ==
            IF i = 0 THEN <<>>
            ELSE LET func_agg == get_func_agg(leaves[i])
                     name == agg_col_name(func_agg)
                 IN IF \E k \in 1..Len(F[i - 1]) : F[i - 1][k].name = name
                    THEN F[i - 1]
                    ELSE Append(F[i - 1],
                                AggExpr(LowerName(func_agg.tag), func_agg, name))
    IN F[Len(leaves)]

\* C6: one analyze_rules of a GroupedTable on rules that are aggregate trees
\* calls aggregate_dataset once, with the keys of the group and with the
\* expressions of all the rules, each aggregate column once for the batch.
C6_OneAggregationPerBatch ==
    (/\ last # Idle
     /\ last.op = "grouped_analyze_rules"
     /\ \A i \in 1..Len(last.args) : AllAggregate(last.args[i].cond))
        => /\ Len(last.agg_calls) = 1
           /\ last.agg_calls[1].keys = last.keys
           /\ last.agg_calls[1].exprs = FirstOccurrences(LeavesOfRules(last.args))

\* Two rules on the sum of POINTS have been analysed in one batch, with one
\* call of aggregate_dataset and one expression.
C6_Witness ==
    /\ last # Idle
    /\ last.op = "grouped_analyze_rules"
    /\ Len(last.args) = 2
    /\ \A i \in 1..Len(last.args) : last.args[i].cond = sum_gt_60
    /\ Len(last.agg_calls) = 1
    /\ Len(last.agg_calls[1].exprs) = 1
    /\ ~IsException(last.result)

\* The last statement was analyze of a GroupedTable that had not aggregated
\* yet, on one aggregate leaf whose column is a column of the dataset, no row
\* of which misses a key.
FreshLeafAnalysis ==
    /\ last # Idle
    /\ last.op = "grouped_analyze"
    /\ last.args[1].cond.tag \in AggregateByTags
    /\ last.before.tag = "frame"
    /\ last.before.plan # "agg"
    /\ last.args[1].cond.col_name \in Range(last.before.cols)
    /\ \A i \in 1..Len(last.before.rows) :
           ~HasNullKey(last.before.rows[i], last.keys)

\* The distinct values of the keys on the rows.
KeyGroups(rows, keys) == {KeyOf(rows[i], keys) : i \in 1..Len(rows)}

\* The groups whose aggregate satisfies the comparison of the leaf.
ValidGroups(rows, keys, leaf) ==
    {k \in KeyGroups(rows, keys) :
        LET x == Aggregate(LowerName(FuncTagOf(leaf.tag)),
                           GroupRows(rows, keys, k), leaf.col_name)
        IN ~IsNullCell(x) /\ Compare(leaf.operator, x, IntCell(leaf.value))}

\* C7: analyze of table.group_by(keys) on one aggregate leaf (F, c, op, v)
\* returns the Metrics whose total_row_count is the number of distinct key
\* groups of the table and whose valid_row_count is the number of groups
\* whose F over c satisfies op v.
C7_GroupMetrics ==
    FreshLeafAnalysis =>
        /\ last.result.tag = "Metrics"
        /\ last.result.total_row_count =
               Cardinality(KeyGroups(last.before.rows, last.keys))
        /\ last.result.valid_row_count =
               Cardinality(ValidGroups(last.before.rows, last.keys,
                                       last.args[1].cond))

\* A tree whose leaves are no aggregates.
RECURSIVE RowWise(_)
RowWise(c) ==
    IF c.tag \in CombinatorTags THEN RowWise(c.left) /\ RowWise(c.right)
    ELSE IF c.tag = "NotCondition" THEN RowWise(c.cond)
    ELSE c.tag \in LeafTags

\* The columns the leaves of a tree name, in the order of the evaluation.
RECURSIVE ColumnsAsked(_)
ColumnsAsked(c) ==
    IF c.tag \in CombinatorTags
    THEN ColumnsAsked(c.left) \o ColumnsAsked(c.right)
    ELSE IF c.tag = "NotCondition" THEN ColumnsAsked(c.cond)
    ELSE IF c.tag = "CompareColumnToColumn" THEN <<c.col_left, c.col_right>>
    ELSE <<c.col_name>>

ColumnsOfRules(args) ==
    LET F[i \in 0..Len(args)] ==
            IF i = 0 THEN <<>> ELSE F[i - 1] \o ColumnsAsked(args[i].cond)
    IN F[Len(args)]

\* The first element of q that is not in S.
FirstMissing(q, S) ==
    q[CHOOSE i \in 1..Len(q) :
         q[i] \notin S /\ \A k \in 1..(i - 1) : q[k] \in S]

\* The last statement was analyze or analyze_rules of a CalistaTable on
\* row-wise trees, a leaf of which names a column the table has not.
MissingColumnAnalysis ==
    /\ last # Idle
    /\ last.op \in {"analyze", "analyze_rules"}
    /\ \A i \in 1..Len(last.args) : RowWise(last.args[i].cond)
    /\ \E c \in Range(ColumnsOfRules(last.args)) :
           c \notin Range(last.before.cols)

\* C8: analyze and analyze_rules of a CalistaTable on trees a leaf of which
\* names a column that is not in the schema (col_name; col_left, then
\* col_right, of a CompareColumnToColumn) raise "Column '<name>' not found
\* in [<the columns of the schema>]" for the first such column met, and
\* return no Metrics.
C8_MissingColumnRaises ==
    MissingColumnAnalysis =>
        last.result =
            Exception("Exception",
                      ColumnNotFoundMsg(
                          FirstMissing(ColumnsOfRules(last.args),
                                       Range(last.before.cols)),
                          last.before.cols))

\* TEAM = DATE has been analysed on a table of TEAM and POINTS: col_left is
\* a column, col_right is not.
C8_Witness ==
    /\ MissingColumnAnalysis
    /\ last.args[1].cond = team_eq_date
    /\ last.result =
          Exception("Exception",
                    "Column 'DATE' not found in ['TEAM', 'POINTS']")

\* The step is a group_by some key of which is no column of the table.
UnknownKeyGroupBy ==
    /\ last = Idle
    /\ last' # Idle
    /\ last'.op = "group_by"
    /\ \E i \in 1..Len(last'.keys) :
           last'.keys[i] \notin Range(last'.before.cols)

\* C9: group_by with a key that is no column of the schema raises
\* "Column '<key>' not found in [<the columns of the schema>]" for the first
\* such key, and makes no GroupedTable and no engine.
C9_UnknownKeyRaises ==
    [][UnknownKeyGroupBy =>
          /\ last'.result =
                 Exception("Exception",
                           ColumnNotFoundMsg(
                               FirstMissing(last'.keys,
                                            Range(last'.before.cols)),
                               last'.before.cols))
          /\ groups' = groups
          /\ engines' = engines
          /\ tables' = tables]_vars

\* group_by("TEAM", "DATE") has raised on a table of TEAM and POINTS, and
\* the session holds no GroupedTable.
C9_Witness ==
    /\ last # Idle
    /\ last.op = "group_by"
    /\ last.keys = <<"TEAM", "DATE">>
    /\ last.result =
          Exception("Exception",
                    "Column 'DATE' not found in ['TEAM', 'POINTS']")
    /\ groups = <<>>

\* The columns the aggregate leaves of the rules name, rule after rule.
SourceColumns(args) ==
    LET leaves == LeavesOfRules(args) IN
    [i \in 1..Len(leaves) |-> leaves[i].col_name]

\* The last statement was analyze or analyze_rules of a GroupedTable that
\* had not aggregated yet, on aggregate trees a leaf of which names a column
\* the dataset has not.
MissingSourceAnalysis ==
    /\ GroupedCall
    /\ last.before.tag = "frame"
    /\ last.before.plan # "agg"
    /\ \A i \in 1..Len(last.args) : AllAggregate(last.args[i].cond)
    /\ \E c \in Range(SourceColumns(last.args)) :
           c \notin Range(last.before.cols)

\* C10: analyze and analyze_rules of a GroupedTable on an aggregate leaf
\* whose col_name is no column of the dataset raise the error of a missing
\* column, "Column '<name>' not found in [<the columns of the schema>]".
C10_MissingSourceRaises ==
    MissingSourceAnalysis =>
        last.result =
            Exception("Exception",
                      ColumnNotFoundMsg(
                          FirstMissing(SourceColumns(last.args),
                                       Range(last.before.cols)),
                          last.before.cols))

\* The name of the class of the descriptor each aggregate class gives, and
\* the same name in upper case.
KindName(tag) ==
    CASE tag = "SumBy" -> "Sum"
      [] tag = "CountBy" -> "Count"
      [] tag = "MeanBy" -> "Mean"
      [] tag = "MinBy" -> "Min"
      [] tag = "MaxBy" -> "Max"
      [] tag = "MedianBy" -> "Median"

UpperKindName(tag) ==
    CASE tag = "SumBy" -> "SUM"
      [] tag = "CountBy" -> "COUNT"
      [] tag = "MeanBy" -> "MEAN"
      [] tag = "MinBy" -> "MIN"
      [] tag = "MaxBy" -> "MAX"
      [] tag = "MedianBy" -> "MEDIAN"

\* The last statement asked an aggregate leaf for its descriptor and the
\* name of its aggregate column.
AskedFuncAgg == last # Idle /\ last.op = "get_func_agg"

\* The last statement was the rewrite of a list of aggregate trees.
Rewritten == last # Idle /\ last.op = "rewrite"

\* The aggregate leaves of a list of trees, tree after tree.
LeavesOfList(conditions) ==
    LET F[i \in 0..Len(conditions)] ==
            IF i = 0 THEN <<>> ELSE F[i - 1] \o AggLeaves(conditions[i])
    IN F[Len(conditions)]

\* C11, as the spec states it: the aggregate column of an aggregate
\* condition of any of the six classes on column c is named by the function
\* kind in upper case, "_" and c (SumBy on SALARY gives SUM_SALARY).
C11_UpperCaseName ==
    AskedFuncAgg =>
        last.agg_col_name =
            UpperKindName(last.self.tag) \o "_" \o last.self.col_name

\* C11, amended: the aggregate column is named by the class name of the
\* function kind as it is written (Sum, Count, Mean, Min, Max, Median), "_"
\* and c, and the leaves of a rewritten list that need the same function of
\* the same column give one expression of that name.
C11_ClassName ==
    /\ AskedFuncAgg =>
           last.agg_col_name =
               KindName(last.self.tag) \o "_" \o last.self.col_name
    /\ Rewritten =>
           \A l \in Range(LeavesOfList(last.conditions)) :
               Cardinality({i \in 1..Len(last.agg_cols_expr) :
                               last.agg_cols_expr[i].name =
                                   KindName(l.tag) \o "_" \o l.col_name}) = 1

\* SumBy on SALARY has been asked and has given Sum_SALARY.
C11_Witness ==
    /\ AskedFuncAgg
    /\ last.self.tag = "SumBy"
    /\ last.self.col_name = "SALARY"
    /\ last.agg_col_name = "Sum_SALARY"

\* The last statement was analyze_rules, of a CalistaTable or of a
\* GroupedTable, and it returned.
ReturnedFromAnalyzeRules ==
    /\ last # Idle
    /\ last.op \in {"analyze_rules", "grouped_analyze_rules"}
    /\ ~IsException(last.result)

\* C12: analyze_rules(rules) returns one Metrics per entry of rules, in the
\* order of the entries, the rule of each being the name of its entry.
C12_OneMetricsPerRule ==
    ReturnedFromAnalyzeRules =>
        /\ last.result.tag = "list"
        /\ Len(last.result.items) = Len(last.args)
        /\ \A i \in 1..Len(last.args) :
               /\ last.result.items[i].tag = "Metrics"
               /\ last.result.items[i].rule = last.args[i].rule

\* analyze_rules of a table has returned the Metrics of two rules.
C12_Witness ==
    /\ ReturnedFromAnalyzeRules
    /\ last.op = "analyze_rules"
    /\ Len(last.args) = 2
    /\ last.args[1].cond # last.args[2].cond
    /\ last.result.items[1].rule = "r1"
    /\ last.result.items[2].rule = "r2"

\* The last statement was analyze or analyze_rules, of a CalistaTable or of
\* a GroupedTable, and it returned.
ReturnedMetrics ==
    /\ last # Idle
    /\ last.op \in {"analyze", "analyze_rules",
                    "grouped_analyze", "grouped_analyze_rules"}
    /\ ~IsException(last.result)

\* The Metrics the last statement returned, as a list.
MetricsReturned ==
    IF last.result.tag = "list" THEN last.result.items ELSE <<last.result>>

\* The dataset the rules of the last statement were evaluated on: that of
\* the table, or the aggregated dataset the engine of the GroupedTable holds.
EvaluatedDataset ==
    IF last.op \in {"analyze", "analyze_rules"}
    THEN last.before
    ELSE engines[groups[last.self].engine]

\* The expression of the i-th rule of the last statement on that dataset.
EvaluatedExpr(i) ==
    _evaluate_condition(
        backend, EvaluatedDataset,
        IF last.op \in {"analyze", "analyze_rules"}
        THEN last.args[i].cond
        ELSE get_conditions_as_func_check(last.args[i].cond)).expr

\* C13: every Metrics that analyze and analyze_rules return has
\* 0 <= valid_row_count <= total_row_count, total_row_count being the number
\* of rows of the evaluated dataset and valid_row_count the number of those
\* rows on which the expression of the rule is true.
C13_ValidWithinTotal ==
    ReturnedMetrics =>
        \A i \in 1..Len(MetricsReturned) :
            /\ 0 <= MetricsReturned[i].valid_row_count
            /\ MetricsReturned[i].valid_row_count
                   <= MetricsReturned[i].total_row_count
            /\ MetricsReturned[i].total_row_count = Len(EvaluatedDataset.rows)
            /\ MetricsReturned[i].valid_row_count =
                   Cardinality({r \in 1..Len(EvaluatedDataset.rows) :
                                   EvaluatedExpr(i)[r] = "true"})

\* A rule has been analysed on a dataset with missing cells, and some of
\* its rows, not all, satisfy it.
C13_Witness ==
    /\ ReturnedMetrics
    /\ last.op = "analyze"
    /\ last.before = WithNulls
    /\ last.args[1].cond = points_gt_15
    /\ 0 < last.result.valid_row_count
    /\ last.result.valid_row_count < last.result.total_row_count

\* The last statement was the evaluation of ~(~a), a being a leaf that is
\* no aggregate.
EvaluatedDoubleNegation ==
    /\ last # Idle
    /\ last.op = "evaluate"
    /\ last.condition.tag = "NotCondition"
    /\ last.condition.cond.tag = "NotCondition"
    /\ last.condition.cond.cond.tag \in LeafTags

\* C14: ~(~a), a being a leaf that is no aggregate, evaluates to the
\* row-wise result of a, hence counts the same valid rows; where a raises,
\* ~(~a) raises the same exception.
C14_DoubleNegation ==
    EvaluatedDoubleNegation =>
        LET a == _evaluate_condition(backend, last.dataset,
                                     last.condition.cond.cond)
        IN /\ last.value.ok = a.ok
           /\ last.value.expr = a.expr
           /\ last.value.exc = a.exc
           /\ Cardinality({i \in 1..Len(last.value.expr) :
                              last.value.expr[i] = "true"})
                = Cardinality({i \in 1..Len(a.expr) : a.expr[i] = "true"})

\* ~(~a) has been evaluated by polars on a dataset where a is missing on a
\* row, true on another and false on a third.
C14_Witness ==
    /\ EvaluatedDoubleNegation
    /\ backend = "polars"
    /\ last.dataset = WithNulls
    /\ last.condition.cond.cond = points_gt_15
    /\ last.value.ok
    /\ {"true", "false", "null"} \subseteq Range(last.value.expr)

\* The last statement was analyze of a CalistaTable on a leaf of a class
\* for which the engine has no method, the column of the leaf being one of
\* the dataset.
UnsupportedLeafAnalysis ==
    /\ last # Idle
    /\ last.op = "analyze"
    /\ last.args[1].cond.tag \in AggregateByTags
    /\ last.before.tag = "frame"
    /\ last.args[1].cond.col_name \in Range(last.before.cols)

\* The name of the method the engine is asked for, per class.
MethodName(tag) ==
    CASE tag = "SumBy" -> "sum_by"
      [] tag = "CountBy" -> "count_by"
      [] tag = "MeanBy" -> "mean_by"
      [] tag = "MinBy" -> "min_by"
      [] tag = "MaxBy" -> "max_by"
      [] tag = "MedianBy" -> "median_by"

AskedCheckTree == last # Idle /\ last.op = "get_conditions_as_func_check"

\* out has the shape of tree: a combinator of the same class where tree has
\* one, with the sides in the same order, and, where tree has an aggregate
\* leaf, the check of that leaf.
RECURSIVE SameShape(_, _)
SameShape(tree, out) ==
    IF tree.tag \in CombinatorTags
    THEN /\ out.tag = tree.tag
         /\ SameShape(tree.left, out.left)
         /\ SameShape(tree.right, out.right)
    ELSE /\ tree.tag \in AggregateByTags
         /\ out = get_func_check(tree)

\* The number of operators & and | between the root and the deepest leaf.
RECURSIVE Depth(_)
Depth(tree) ==
    IF tree.tag \in CombinatorTags
    THEN 1 + (IF Depth(tree.left) >= Depth(tree.right)
              THEN Depth(tree.left) ELSE Depth(tree.right))
    ELSE 0

\* C16: get_conditions_as_func_check keeps the structure of a tree built
\* from aggregate leaves with & and |: the same nesting of And and Or nodes,
\* the same left and right, and each aggregate leaf replaced where it stands
\* by its own check.
C16_StructurePreserved ==
    (AskedCheckTree /\ last.self.is_aggregate)
        => SameShape(last.self, last.result)

\* A tree two operators deep, with an Or above an And and different leaves
\* on its sides, has been rewritten.
C16_Witness ==
    /\ AskedCheckTree
    /\ Depth(last.self) = 2
    /\ last.self.tag = "OrCondition"
    /\ last.self.left.tag = "AndCondition"
    /\ last.self.left.left # last.self.left.right
    /\ last.self.right = count_ge_3
    /\ last.result.right = get_func_check(count_ge_3)

\* The last statement asked an aggregate leaf for its check.
AskedFuncCheck == last # Idle /\ last.op = "get_func_check"

\* C17: get_func_check of an aggregate leaf of fields (col_name, operator,
\* value) returns a CompareColumnToValue that is no aggregate, on the
\* aggregate column of the leaf, with the operator and the value of the leaf.
C17_CheckOfLeaf ==
    AskedFuncCheck =>
        /\ last.result.tag = "CompareColumnToValue"
        /\ ~last.result.is_aggregate
        /\ last.result.col_name =
               KindName(last.self.tag) \o "_" \o last.self.col_name
        /\ last.result.col_name = agg_col_name(get_func_agg(last.self))
        /\ last.result.operator = last.self.operator
        /\ last.result.value = last.self.value

\* A MedianBy leaf on SALARY with <= 10 has been asked for its check.
C17_Witness ==
    /\ AskedFuncCheck
    /\ last.self = AggregateBy("MedianBy", "SALARY", "<=", 10)
    /\ last.result.col_name = "Median_SALARY"

\* The leaves of a check-tree, from left to right.
RECURSIVE CheckLeaves(_)
CheckLeaves(c) ==
    IF c.tag \in CombinatorTags THEN CheckLeaves(c.left) \o CheckLeaves(c.right)
    ELSE <<c>>

\* The function each aggregate class asks the engine for.
FunctionOf(tag) ==
    CASE tag = "SumBy" -> "sum"
      [] tag = "CountBy" -> "count"
      [] tag = "MeanBy" -> "mean"
      [] tag = "MinBy" -> "min"
      [] tag = "MaxBy" -> "max"
      [] tag = "MedianBy" -> "median"

\* The expressions of the list exprs that build the column name.
Building(exprs, name) == {k \in 1..Len(exprs) : exprs[k].name = name}

\* C18: after the rewrite of a list of aggregate trees, every leaf of every
\* check-tree names a column that exactly one of the expressions gathered
\* for aggregate_dataset builds, and that expression computes the function
\* and reads the source column of the aggregate leaf the check replaces.
C18_ChecksReadBuiltColumns ==
    Rewritten =>
        \A i \in 1..Len(last.conditions) :
            LET leaves == AggLeaves(last.conditions[i])
                checks == CheckLeaves(last.checks[i])
            IN /\ Len(checks) = Len(leaves)
               /\ \A j \in 1..Len(leaves) :
                      /\ Cardinality(Building(last.agg_cols_expr,
                                              checks[j].col_name)) = 1
                      /\ \A k \in Building(last.agg_cols_expr,
                                           checks[j].col_name) :
                             /\ last.agg_cols_expr[k].func =
                                    FunctionOf(leaves[j].tag)
                             /\ last.agg_cols_expr[k].col = leaves[j].col_name

\* Two trees that need the sum of POINTS twice, the count of POINTS and the
\* sum of DATE have been rewritten into three expressions.
C18_Witness ==
    /\ Rewritten
    /\ last.conditions =
           <<sum_gt_60, CondOr(count_ge_3, CondAnd(sum_lt_100, sum_date_gt_0))>>
    /\ Len(last.agg_cols_expr) = 3

\* The last statement was analyze of a GroupedTable on an aggregate tree and
\* it returned its Metrics.
GroupedAnalysisReturned ==
    /\ last # Idle
    /\ last.op = "grouped_analyze"
    /\ ~IsException(last.result)

\* What the same analyze, called again on the same GroupedTable right after
\* the last statement, returns: the engine of the GroupedTable holds what
\* the last statement left in it.
AnalyzedAgain ==
    grouped_analyze(backend, engines[groups[last.self].engine], last.keys,
                    last.args[1].rule, last.args[1].cond).result

\* C19: analyze called twice in a row on the same GroupedTable with the
\* same aggregate condition returns the same total_row_count and
\* valid_row_count both times.
C19_SameMetricsTwice ==
    GroupedAnalysisReturned =>
        /\ AnalyzedAgain.tag = "Metrics"
        /\ AnalyzedAgain.total_row_count = last.result.total_row_count
        /\ AnalyzedAgain.valid_row_count = last.result.valid_row_count

\* The step is a load of the CalistaEngine.
LoadStep == last = Idle /\ last' # Idle /\ last'.op = "load"

\* What analyze of the rule is_null("POINTS") returns on the dataset ds.
NullPointsOn(ds) == analyze(backend, ds, "r1", is_null_points).result

\* C20: a CalistaTable keeps the dataset it was loaded with: after a second
\* load on the same CalistaEngine, the analysis of a rule on a table loaded
\* before counts the rows it counted before the load.
C20_TableKeepsDataset ==
    [][LoadStep =>
          \A t \in 1..Len(tables) :
              NullPointsOn(engines'[tables[t]]) = NullPointsOn(engines[tables[t]])]_vars

\* The step is analyze or analyze_rules of a GroupedTable.
GroupedStep ==
    /\ last = Idle
    /\ last' # Idle
    /\ last'.op \in {"grouped_analyze", "grouped_analyze_rules"}

\* What analyze of the rule POINTS > 15 returns on the dataset ds.
PointsAbove15On(ds) == analyze(backend, ds, "r1", points_gt_15).result

\* C21: analyze and analyze_rules of a GroupedTable leave the dataset of
\* every CalistaTable as it was: a row-level rule analysed on the table
\* group_by was called on gives the same Metrics before and after.
C21_GroupedLeavesParent ==
    [][GroupedStep =>
          \A t \in 1..Len(tables) :
              /\ engines'[tables'[t]] = engines[tables[t]]
              /\ PointsAbove15On(engines'[tables'[t]])
                     = PointsAbove15On(engines[tables[t]])]_vars

\* A GroupedTable has analysed a rule and its engine holds the aggregated
\* dataset, while the table it was made from holds the dataset it had.
C21_Witness ==
    /\ last # Idle
    /\ last.op = "grouped_analyze"
    /\ ~IsException(last.result)
    /\ engines[groups[last.self].engine].plan = "agg"
    /\ engines[tables[1]] = last.before
    /\ last.before.plan = "load"

\* The places, among the leaves taken tree after tree and left before
\* right, of the leaves that need the function and the column of e.
Needing(leaves, e) ==
    {j \in 1..Len(leaves) :
        FunctionOf(leaves[j].tag) = e.func /\ leaves[j].col_name = e.col}

\* The first of them.
FirstNeeding(leaves, e) ==
    CHOOSE j \in Needing(leaves, e) : \A k \in Needing(leaves, e) : j <= k

\* C22: the expressions the rewriter builds stand in the order in which
\* their (function, column) pair is first met, the trees being taken in the
\* order of the list and each tree left child before right child.
C22_FirstOccurrenceOrder ==
    Rewritten =>
        LET leaves == LeavesOfList(last.conditions)
            exprs == last.agg_cols_expr
        IN /\ \A k \in 1..Len(exprs) : Needing(leaves, exprs[k]) # {}
           /\ \A k1, k2 \in 1..Len(exprs) :
                  k1 < k2 => FirstNeeding(leaves, exprs[k1])
                                 < FirstNeeding(leaves, exprs[k2])

\* A list whose second tree meets the sum of DATE on its left before the
\* sum and the count of POINTS on its right has been rewritten in that
\* order, the sum of POINTS of the first tree coming first.
C22_Witness ==
    /\ Rewritten
    /\ last.conditions =
           <<sum_gt_60, CondOr(count_ge_3, CondAnd(sum_lt_100, sum_date_gt_0))>>
    /\ Names(last.agg_cols_expr) = <<"Sum_POINTS", "Sum_DATE", "Count_POINTS">>

\* The last statement was the evaluation of an AND or an OR.
EvaluatedCombinator ==
    /\ last # Idle
    /\ last.op = "evaluate"
    /\ last.condition.tag \in CombinatorTags

\* C23: a & b and a | b store b as the left child and a as the right child
\* of the node they build; the evaluator evaluates the left child, then the
\* right child, then calls and_condition (or_condition) of the engine on the
\* two results in that order.
C23_OtherOnLeft ==
    /\ (Combined /\ IsCondition(last.result)) =>
           /\ last.result.tag =
                  (IF last.op = "and" THEN "AndCondition" ELSE "OrCondition")
           /\ last.result.left = last.other
           /\ last.result.right = last.self
    /\ EvaluatedCombinator =>
           LET b == _evaluate_condition(backend, last.dataset,
                                        last.condition.left)
               a == _evaluate_condition(backend, last.dataset,
                                        last.condition.right)
               method == IF last.condition.tag = "AndCondition"
                         THEN "and_condition" ELSE "or_condition"
           IN /\ last.value.log =
                     <<Visit(last.condition)>> \o b.log
                        \o (IF b.ok THEN a.log ELSE <<>>)
                        \o (IF b.ok /\ a.ok THEN <<Call(method)>> ELSE <<>>)
              /\ (b.ok /\ a.ok) =>
                     last.value.expr =
                         (IF last.condition.tag = "AndCondition"
                          THEN and_condition(b.expr, a.expr)
                          ELSE or_condition(b.expr, a.expr))

\* is_null("POINTS") & (POINTS > 15) has been evaluated: the comparison,
\* which is the left child, first, then is_null, then and_condition.
C23_Witness ==
    /\ EvaluatedCombinator
    /\ last.condition = CondAnd(is_null_points, points_gt_15)
    /\ last.condition.left = points_gt_15
    /\ last.value.ok
    /\ Len(last.value.log) = 6
    /\ last.value.log[2].tag = "CompareColumnToValue"
    /\ last.value.log[4].tag = "IsNull"
    /\ last.value.log[6].tag = "and_condition"

\* The leaves of a row-wise tree, left before right.
RECURSIVE RowLeaves(_)
RowLeaves(c) ==
    IF c.tag \in CombinatorTags THEN RowLeaves(c.left) \o RowLeaves(c.right)
    ELSE IF c.tag = "NotCondition" THEN RowLeaves(c.cond)
    ELSE <<c>>

\* The leaf names a column that is not among cols.
NamesMissing(leaf, cols) ==
    \E c \in Range(ColumnsAsked(leaf)) : c \notin Range(cols)

\* The place of the first leaf of the tree that names a missing column.
FirstOffending(tree, cols) ==
    CHOOSE j \in 1..Len(RowLeaves(tree)) :
        /\ NamesMissing(RowLeaves(tree)[j], cols)
        /\ \A k \in 1..(j - 1) : ~NamesMissing(RowLeaves(tree)[k], cols)

\* The last statement was analyze of a CalistaTable on a row-wise tree a
\* leaf of which names a column the table has not.
MissingColumnTree ==
    /\ last # Idle
    /\ last.op = "analyze"
    /\ RowWise(last.args[1].cond)
    /\ \E j \in 1..Len(RowLeaves(last.args[1].cond)) :
           NamesMissing(RowLeaves(last.args[1].cond)[j], last.before.cols)

\* The calls of the methods of the engine in the log.
CallsIn(log) == {i \in 1..Len(log) : log[i].ev = "call"}

\* C24, as the spec states it: when a leaf of the tree names a column that
\* is not in the schema, the evaluation fails with the error of the missing
\* column before any method of the engine has been called for the tree,
\* wherever the leaf is in the tree.
C24_CheckedBeforeAnyCall ==
    MissingColumnTree =>
        /\ IsException(last.result)
        /\ CallsIn(last.log) = {}

\* C24, amended: the check is made leaf by leaf, each before its own
\* dispatch: the evaluation fails with the error of the missing column at
\* the first leaf, left before right, that names one; no method is called
\* for that leaf nor after it, and the leaves before it have each had their
\* method called.
C24_CheckedBeforeOwnDispatch ==
    MissingColumnTree =>
        LET tree == last.args[1].cond
            m == FirstOffending(tree, last.before.cols)
        IN /\ IsException(last.result)
           /\ last.result.kind = "Exception"
           /\ last.log[Len(last.log)] = Visit(RowLeaves(tree)[m])
           /\ Cardinality({i \in CallsIn(last.log) :
                              last.log[i].tag \in EngineLeafMethods}) = m - 1

\* (POINTS > 15) on the left of is_null("DATE"), DATE being no column: the
\* comparison has been dispatched before the check of DATE failed.
C24_Witness ==
    /\ MissingColumnTree
    /\ last.args[1].cond = CondAnd(is_null_date, points_gt_15)
    /\ FirstOffending(last.args[1].cond, last.before.cols) = 2
    /\ Cardinality(CallsIn(last.log)) = 1
    /\ IsException(last.result)

\* C25: an aggregate condition whose operator is none of "=", "!=", "<",
\* "<=", ">", ">=" fails when its check is constructed by get_func_check.
C25_BadOperatorFailsAtCheck ==
    (AskedFuncCheck /\ last.self.operator \notin {"=", "!=", "<", "<=", ">", ">="})
        => IsException(last.result)


\* C26: get_conditions_as_func_check, asked of a node that is neither a
\* combinator nor aggregate (an IsNull leaf, a CompareColumnToValue),
\* returns that node unchanged.
C26_NonAggregateUnchanged ==
    (AskedCheckTree /\ ~last.self.is_aggregate
                    /\ last.self.tag \notin CombinatorTags)
        => last.result = last.self


\* The tree an & or an | has just built.
BuiltTree ==
    last # Idle /\ last.op \in {"and", "or"} /\ IsCondition(last.result)

\* Every And and Or node of the tree carries the is_aggregate of its left
\* and of its right.
RECURSIVE SameKindThroughout(_)
SameKindThroughout(tree) ==
    IF tree.tag \in CombinatorTags
    THEN /\ tree.left.is_aggregate = tree.is_aggregate
         /\ tree.right.is_aggregate = tree.is_aggregate
         /\ SameKindThroughout(tree.left)
         /\ SameKindThroughout(tree.right)
    ELSE IF tree.tag = "NotCondition"
    THEN SameKindThroughout(tree.cond)
    ELSE TRUE

\* C27: in every tree built with & and |, and in every check-tree that
\* get_conditions_as_func_check produces, each And and Or node has the
\* is_aggregate of both of its children.
C27_SameKindThroughout ==
    /\ BuiltTree => SameKindThroughout(last.result)
    /\ (AskedCheckTree /\ IsCondition(last.result))
          => SameKindThroughout(last.result)

\* An aggregate tree built with & from an aggregate leaf and a tree that has
\* an Or above an And has been rewritten into its check-tree.
C27_Witness ==
    /\ AskedCheckTree
    /\ last.self.tag = "AndCondition"
    /\ last.self.is_aggregate
    /\ Depth(last.self) = 3
    /\ last.result.tag = "AndCondition"
    /\ ~last.result.is_aggregate


\* where has returned a table.
WhereReturned ==
    /\ last # Idle
    /\ last.op = "where"
    /\ ~IsException(last.result)

\* The expression of the condition given to where, on the dataset the
\* receiver held when where was called.
FilterExpr ==
    _evaluate_condition(backend, last.before, last.args[1].cond).expr

\* C28: table.where(c), c not aggregate, returns a new CalistaTable that has
\* as many rows as c has valid rows on the receiver, and the receiver holds
\* after the call the dataset it held before.
C28_WhereKeepsValidRows ==
    WhereReturned =>
        /\ ~last.args[1].cond.is_aggregate
        /\ last.result.id # last.self
        /\ tables[last.result.id] # tables[last.self]
        /\ Len(engines[tables[last.result.id]].rows) =
               Cardinality({r \in 1..Len(last.before.rows) :
                               FilterExpr[r] = "true"})
        /\ engines[tables[last.self]] = last.before

\* where has filtered a dataset with missing cells on a comparison: the new
\* table has fewer rows than the receiver, and more than none.
C28_Witness ==
    /\ WhereReturned
    /\ last.before = WithNulls
    /\ last.args[1].cond = points_gt_15
    /\ \E r \in 1..Len(last.before.rows) : FilterExpr[r] = "null"
    /\ Len(engines[tables[last.result.id]].rows) > 0
    /\ Len(engines[tables[last.result.id]].rows) < Len(last.before.rows)


\* C30: on every backend, the valid_row_count_pct of a returned Metrics is
\* valid_row_count / total_row_count * 100 rounded to 2 decimal digits.
C30_PctRoundedToHundredths ==
    ReturnedMetrics =>
        \A i \in 1..Len(MetricsReturned) :
            MetricsReturned[i].total_row_count > 0 =>
                MetricsReturned[i].valid_row_count_pct.n * 100 =
                    RoundHundredths(MetricsReturned[i].valid_row_count * 100,
                                    MetricsReturned[i].total_row_count)
                        * MetricsReturned[i].valid_row_count_pct.d

====
